---- MODULE Spec2Model ----
(***************************************************************************)
(* Storage Market actor (actors/builtin/market/market_actor.go) as a       *)
(* state machine.  One action per exported method; every action is the     *)
(* whole message: caller validation, the state transaction, the outbound   *)
(* sends.  A message that aborts leaves the actor state as it was.         *)
(*                                                                         *)
(* The State methods the handlers call (the deferred deal update, the      *)
(* balance-table helpers, the deal policy bounds) live in files that are   *)
(* not part of the sources at hand; they are written from sections 3.1,    *)
(* 4.1 and 4.2.3 of the specification and are marked as such.              *)
(***************************************************************************)
EXTENDS Integers, Sequences, FiniteSets, TLC

(***************************************************************************)
(* Bounds of the model.                                                    *)
(***************************************************************************)
MaxEpoch == 3
MaxDeals == 2
MaxDealsObserved == 1
MaxEscrow == 4
MaxDataCap == 2
MaxIdList == 2

(***************************************************************************)
(* Addresses.  ID-form addresses of the parties, one public-key address    *)
(* that resolves to the client, one address that does not resolve.         *)
(***************************************************************************)
Miners == {"m1", "m2"}
Accounts == {"c1", "w1", "o1", "w2"}
IDAddrs == Miners \cup Accounts
BurntFundsActorAddr == "burnt"
VerifiedRegistryActorAddr == "verifreg"

epochUndefined == -1

\* rt.ResolveAddress: ID addresses resolve to themselves, the key address
\* to the account that owns it, anything else does not resolve.
ResolveAddress(a) ==
  IF a \in IDAddrs THEN [ok |-> TRUE, addr |-> a]
  ELSE IF a = "k1" THEN [ok |-> TRUE, addr |-> "c1"]
  ELSE [ok |-> FALSE, addr |-> a]

\* rt.GetActorCodeCID
GetActorCodeCID(a) ==
  IF a \in Miners THEN "StorageMinerActorCodeID" ELSE "AccountActorCodeID"

CallerTypesSignable == {"AccountActorCodeID", "MultisigActorCodeID"}

\* builtin.RequestMinerControlAddrs: (owner, worker) of a miner actor.
RequestMinerControlAddrs(m) ==
  IF m = "m1" THEN [owner |-> "o1", worker |-> "w1"]
  ELSE [owner |-> "w2", worker |-> "w2"]

(***************************************************************************)
(* Small helpers.                                                          *)
(***************************************************************************)
Min(a, b) == IF a <= b THEN a ELSE b
Max(a, b) == IF a >= b THEN a ELSE b

RECURSIVE SetToSortedSeq(_)
SetToSortedSeq(S) ==
  IF S = {} THEN <<>>
  ELSE LET m == CHOOSE x \in S : \A y \in S : x <= y
       IN <<m>> \o SetToSortedSeq(S \ {m})

SeqsUpTo(S, n) == UNION {[1..k -> S] : k \in 0..n}

(***************************************************************************)
(* State.                                                                  *)
(***************************************************************************)
VARIABLES
  EscrowTable,     \* BalanceTable: address -> amount (partial)
  LockedTable,     \* BalanceTable: address -> amount (partial)
  Proposals,       \* DealID -> DealProposal (partial)
  States,          \* DealID -> DealState (partial)
  DealIDsByParty,  \* address -> set of DealID (partial)
  NextID,          \* deal id allocator
  now,             \* rt.CurrEpoch()
  DataCap,         \* Verified Registry: remaining cap of client c1
  last             \* outcome of the last message: op, exit code, sends, return

vars == <<EscrowTable, LockedTable, Proposals, States, DealIDsByParty,
          NextID, now, DataCap, last>>

\* The Storage Miner actor's State (actors/builtin/miner/miner_state.go).
VARIABLES
  PreCommitDeposits,  \* TokenAmount
  LockedFunds,        \* TokenAmount
  VestingFunds,       \* AMT[ChainEpoch]TokenAmount: epoch -> amount (partial)
  PreCommittedSectors, \* HAMT[SectorNumber]SectorPreCommitOnChainInfo
  Sectors,            \* AMT[SectorNumber]SectorOnChainInfo
  Faults,             \* bitfield of sector numbers, as a set
  FaultEpochs,        \* AMT[ChainEpoch]Bitfield: epoch -> set of sectors
  Recoveries,         \* bitfield of sector numbers, as a set
  NewSectors,         \* bitfield: proven since the period began
  SectorExpirations,  \* AMT[ChainEpoch]Bitfield: expiry -> set of sectors
  Deadlines,          \* Deadlines.Due: deadline index -> set of sectors
  PostSubmissions,    \* bitfield: the deadlines proven on time this period
  ProvingPeriodBoundary, \* Info.ProvingPeriodBoundary, fixed at construction
  CronEvents,         \* the events enrolled with the power actor, not yet handled
  Balance,            \* rt.CurrentBalance() of the miner actor
  mlast               \* the last call on the miner State: op, return, argument

mvars == <<PreCommitDeposits, LockedFunds, VestingFunds, PreCommittedSectors,
           Sectors, Faults, FaultEpochs, Recoveries, NewSectors, SectorExpirations,
           Deadlines, PostSubmissions, ProvingPeriodBoundary, CronEvents,
           Balance, mlast>>

\* The actor state as one value, as loaded by rt.State().Transaction.
St ==
  [EscrowTable |-> EscrowTable, LockedTable |-> LockedTable,
   Proposals |-> Proposals, States |-> States,
   DealIDsByParty |-> DealIDsByParty, NextID |-> NextID]

EmptyMap == [x \in {} |-> 0]

\* ConstructState(emptyArray, emptyMap, emptyMSet)
ConstructState ==
  [EscrowTable |-> EmptyMap, LockedTable |-> EmptyMap,
   Proposals |-> EmptyMap, States |-> EmptyMap,
   DealIDsByParty |-> EmptyMap, NextID |-> 0]

\* A transaction in progress: the state, the exit code, the slashed total.
Begin(st) ==
  [st |-> st, code |-> "Ok", slashed |-> 0, ids |-> <<>>, ex |-> 0,
   weight |-> 0, vweight |-> 0, verifiedDeals |-> <<>>]
Abortf(r, c) == IF r.code = "Ok" THEN [r EXCEPT !.code = c] ELSE r

(***************************************************************************)
(* BalanceTable (specification 4.1): address -> non-negative amount.       *)
(***************************************************************************)
Bal(t, a) == IF a \in DOMAIN t THEN t[a] ELSE 0

SetBal(t, a, v) == [x \in (DOMAIN t) \cup {a} |-> IF x = a THEN v ELSE t[x]]

\* extract min(Balance[addr] - floor, requested), clamped at 0
SubtractWithMinimumAmount(t, a, requested, floor) ==
  Max(0, Min(Bal(t, a) - floor, requested))

SubtractWithMinimumFails(t, a, floor) == floor < 0 \/ Bal(t, a) < floor

GetLockedBalance(st, a) == Bal(st.LockedTable, a)

AddEscrowBalance(r, a, amount) ==
  IF r.code # "Ok" THEN r
  ELSE IF amount < 0 THEN Abortf(r, "ErrIllegalState")
  ELSE [r EXCEPT !.st.EscrowTable = SetBal(@, a, Bal(@, a) + amount)]

AddLockedBalance(r, a, amount) ==
  IF r.code # "Ok" THEN r
  ELSE IF amount < 0 THEN Abortf(r, "ErrIllegalArgument")
  ELSE [r EXCEPT !.st.LockedTable = SetBal(@, a, Bal(@, a) + amount)]

\* Lock `amount` of addr's escrow; abort if it exceeds the available escrow.
lockBalanceOrAbort(r, a, amount) ==
  IF r.code # "Ok" THEN r
  ELSE IF amount < 0 THEN Abortf(r, "ErrIllegalArgument")
  ELSE IF Bal(r.st.LockedTable, a) + amount > Bal(r.st.EscrowTable, a)
       THEN Abortf(r, "ErrInsufficientFunds")
  ELSE [r EXCEPT !.st.LockedTable = SetBal(@, a, Bal(@, a) + amount)]

\* Release `amount` of addr's locked funds to its unlocked escrow.
unlockBalance(r, a, amount) ==
  IF r.code # "Ok" THEN r
  ELSE IF amount < 0 \/ Bal(r.st.LockedTable, a) < amount
       THEN Abortf(r, "ErrIllegalState")
  ELSE [r EXCEPT !.st.LockedTable = SetBal(@, a, Bal(@, a) - amount)]

\* Move `amount` from the locked escrow of `from` to the unlocked escrow of `to`.
transferBalance(r, from, to, amount) ==
  IF r.code # "Ok" THEN r
  ELSE IF \/ amount < 0
          \/ Bal(r.st.LockedTable, from) < amount
          \/ Bal(r.st.EscrowTable, from) < amount
       THEN Abortf(r, "ErrIllegalState")
  ELSE [r EXCEPT
          !.st.EscrowTable =
             [x \in (DOMAIN @) \cup {from, to} |->
                Bal(@, x) - (IF x = from THEN amount ELSE 0)
                          + (IF x = to THEN amount ELSE 0)],
          !.st.LockedTable = SetBal(@, from, Bal(@, from) - amount)]

\* Destroy `amount` of addr's locked collateral: it leaves both tables.
slashBalance(r, a, amount) ==
  IF r.code # "Ok" THEN r
  ELSE IF \/ amount < 0
          \/ Bal(r.st.LockedTable, a) < amount
          \/ Bal(r.st.EscrowTable, a) < amount
       THEN Abortf(r, "ErrIllegalState")
  ELSE [r EXCEPT !.st.EscrowTable = SetBal(@, a, Bal(@, a) - amount),
                 !.st.LockedTable = SetBal(@, a, Bal(@, a) - amount)]

(***************************************************************************)
(* Deals.                                                                  *)
(***************************************************************************)
Duration(p) == p.EndEpoch - p.StartEpoch

ClientBalanceRequirement(p) ==
  p.ClientCollateral + p.StoragePricePerEpoch * Duration(p)

ProviderBalanceRequirement(p) == p.ProviderCollateral

\* The state of a deal that was published and never touched again.
UndefinedDealState ==
  [SectorStartEpoch |-> epochUndefined, LastUpdatedEpoch |-> epochUndefined,
   SlashEpoch |-> epochUndefined]

\* states.Get(dealID)
GetDealState(st, d) ==
  IF d \in DOMAIN st.States THEN st.States[d] ELSE UndefinedDealState

\* states.Set(dealID, state)
SetDealState(st, d, s) ==
  [st EXCEPT !.States = [x \in (DOMAIN @) \cup {d} |-> IF x = d THEN s ELSE @[x]]]

Restrict(f, S) == [x \in S |-> f[x]]

\* Remove the deal from Proposals, States and both entries of DealIDsByParty.
deleteDeal(r, d) ==
  IF r.code # "Ok" THEN r
  ELSE [r EXCEPT
          !.st.Proposals = Restrict(@, (DOMAIN @) \ {d}),
          !.st.States = Restrict(@, (DOMAIN @) \ {d}),
          !.st.DealIDsByParty =
             [a \in DOMAIN @ |->
                IF a \in {r.st.Proposals[d].Client, r.st.Proposals[d].Provider}
                THEN @[a] \ {d} ELSE @[a]]]

\* Add to the slashed total the update reports.
addSlashed(r, amount) ==
  IF r.code # "Ok" THEN r ELSE [r EXCEPT !.slashed = @ + amount]

\* A faulty setLastUpdatedEpoch: the epoch of the update is not recorded.
setLastUpdatedEpochDropped(r, d, epoch) == r

\* state.LastUpdatedEpoch = epoch
setLastUpdatedEpoch(r, d, epoch) ==
  IF r.code # "Ok" THEN r
  ELSE [r EXCEPT !.st = SetDealState(@, d,
          [GetDealState(r.st, d) EXCEPT !.LastUpdatedEpoch = epoch])]

\* Init timeout (4.2.3, step 1): the client's whole requirement is unlocked,
\* the provider collateral is destroyed, the deal is deleted.
processDealInitTimedOutOf(r, d, p) ==
  addSlashed(
    deleteDeal(
      slashBalance(
        unlockBalance(r, p.Client, ClientBalanceRequirement(p)),
        p.Provider, p.ProviderCollateral),
      d),
    p.ProviderCollateral)

processDealInitTimedOut(r, d) ==
  IF r.code # "Ok" THEN r ELSE processDealInitTimedOutOf(r, d, r.st.Proposals[d])

\* elapsedStart = max(SectorStartEpoch, LastUpdatedEpoch if set else SectorStartEpoch)
ElapsedStart(s) ==
  Max(s.SectorStartEpoch,
      IF s.LastUpdatedEpoch # epochUndefined THEN s.LastUpdatedEpoch
      ELSE s.SectorStartEpoch)

\* Terminated deal (4.2.3, step 2, SlashEpoch >= 0; doc comment of
\* OnMinerSectorsTerminate): payment for [elapsedStart, SlashEpoch), the
\* client gets its collateral and the fee of the epochs after SlashEpoch
\* back, the provider collateral is destroyed, the deal is deleted.
processDealSlashedOf(r, d, p, s) ==
  addSlashed(
    deleteDeal(
      slashBalance(
        unlockBalance(
          unlockBalance(
            transferBalance(r, p.Client, p.Provider,
              p.StoragePricePerEpoch * (s.SlashEpoch - ElapsedStart(s))),
            p.Client, p.StoragePricePerEpoch * (p.EndEpoch - s.SlashEpoch)),
          p.Client, p.ClientCollateral),
        p.Provider, p.ProviderCollateral),
      d),
    p.ProviderCollateral)

processDealSlashed(r, d) ==
  IF r.code # "Ok" THEN r
  ELSE processDealSlashedOf(r, d, r.st.Proposals[d], GetDealState(r.st, d))

\* Expired deal (4.2.3, step 2, paymentEnd = EndEpoch): both collaterals are
\* unlocked and the deal is deleted.
processDealExpiredOf(r, d, p) ==
  deleteDeal(
    unlockBalance(
      unlockBalance(r, p.Client, p.ClientCollateral),
      p.Provider, p.ProviderCollateral),
    d)

processDealExpired(r, d) ==
  IF r.code # "Ok" THEN r ELSE processDealExpiredOf(r, d, r.st.Proposals[d])

\* Active deal (4.2.3, step 2, not slashed): payment for
\* [elapsedStart, paymentEnd), LastUpdatedEpoch = epoch.
processDealPayment(r, d, p, s, epoch) ==
  setLastUpdatedEpoch(
    transferBalance(r, p.Client, p.Provider,
      p.StoragePricePerEpoch * (Min(epoch, p.EndEpoch) - ElapsedStart(s))),
    d, epoch)

updatePendingDealStateOf(r, d, p, s, epoch) ==
  IF s.SectorStartEpoch < 0
  THEN IF epoch > p.StartEpoch THEN processDealInitTimedOut(r, d) ELSE r
  ELSE IF s.SlashEpoch >= 0 THEN processDealSlashed(r, d)
  ELSE IF Min(epoch, p.EndEpoch) = p.EndEpoch
       THEN processDealExpired(processDealPayment(r, d, p, s, epoch), d)
  ELSE processDealPayment(r, d, p, s, epoch)

\* The deferred update of one deal at the target epoch (4.2.3).
updatePendingDealState(r, d, epoch) ==
  IF r.code # "Ok" THEN r
  ELSE IF d \notin DOMAIN r.st.Proposals THEN Abortf(r, "ErrNotFound")
  ELSE updatePendingDealStateOf(r, d, r.st.Proposals[d], GetDealState(r.st, d), epoch)

\* The deferred update over a list of deals, in list order.
RECURSIVE updatePendingDealStates(_, _, _)
updatePendingDealStates(r, dealIDs, epoch) ==
  IF dealIDs = <<>> THEN r
  ELSE updatePendingDealStates(updatePendingDealState(r, Head(dealIDs), epoch),
                               Tail(dealIDs), epoch)

\* The deals of a party, DealIDsByParty[addr].
DealsOfParty(st, a) ==
  IF a \in DOMAIN st.DealIDsByParty THEN st.DealIDsByParty[a] ELSE {}

\* The deferred update of every deal of a party: a snapshot of
\* DealIDsByParty[addr] in ascending id order.
updatePendingDealStatesForParty(r, a, epoch) ==
  IF r.code # "Ok" THEN r
  ELSE updatePendingDealStates(r, SetToSortedSeq(DealsOfParty(r.st, a)), epoch)

\* A faulty generator: the id is handed out and NextId is left as it was.
generateStorageDealIDKeepsNext(st) == [st |-> st, id |-> st.NextID]

\* st.generateStorageDealID(): NextId++
generateStorageDealID(st) == [st |-> [st EXCEPT !.NextID = @ + 1], id |-> st.NextID]

\* dbp.Put(k, v)
DbpPut(st, k, v) ==
  [st EXCEPT !.DealIDsByParty =
     [a \in (DOMAIN @) \cup {k} |->
        IF a = k THEN (IF k \in DOMAIN @ THEN @[k] ELSE {}) \cup {v} ELSE @[a]]]

(***************************************************************************)
(* Deal policy bounds (market policy; specification 4.2, step 1).          *)
(***************************************************************************)
dealDurationBounds(size) == [min |-> 0, max |-> MaxEpoch]
dealPricePerEpochBounds(size, duration) == [min |-> 0, max |-> MaxEscrow]
dealProviderCollateralBounds(size, duration) == [min |-> 0, max |-> MaxEscrow]
dealClientCollateralBounds(size, duration) == [min |-> 0, max |-> MaxEscrow]

\* validateDeal: the exit code of the first failed check, "Ok" if none fails.
validateDeal(deal, epoch) ==
  LET proposal == deal.Proposal
      d == Duration(proposal)
      db == dealDurationBounds(proposal.PieceSize)
      pb == dealPricePerEpochBounds(proposal.PieceSize, d)
      pcb == dealProviderCollateralBounds(proposal.PieceSize, d)
      ccb == dealClientCollateralBounds(proposal.PieceSize, d)
  IN IF ~deal.SigOk THEN "ErrIllegalArgument"
     ELSE IF epoch > proposal.StartEpoch THEN "ErrIllegalArgument"
     ELSE IF d < db.min \/ d > db.max THEN "ErrIllegalArgument"
     ELSE IF proposal.StoragePricePerEpoch < pb.min
             \/ proposal.StoragePricePerEpoch > pb.max THEN "ErrIllegalArgument"
     ELSE IF proposal.ProviderCollateral < pcb.min
             \/ proposal.ProviderCollateral > pcb.max THEN "ErrIllegalArgument"
     ELSE IF proposal.ClientCollateral < ccb.min
             \/ proposal.ClientCollateral > ccb.max THEN "ErrIllegalArgument"
     ELSE "Ok"

\* A faulty validateDealCanActivate: a deal that is already in a proven
\* sector passes.
validateDealCanActivateAgain(minerAddr, sectorExpiration, deal, proposal, epoch) ==
  IF proposal.Provider # minerAddr THEN "ErrIllegalArgument"
  ELSE IF epoch > proposal.StartEpoch THEN "ErrIllegalArgument"
  ELSE IF proposal.EndEpoch > sectorExpiration THEN "ErrIllegalArgument"
  ELSE "Ok"

\* A faulty validateDealCanActivate: activation at StartEpoch itself is
\* refused (>= for >).
validateDealCanActivateEarly(minerAddr, sectorExpiration, deal, proposal, epoch) ==
  IF proposal.Provider # minerAddr THEN "ErrIllegalArgument"
  ELSE IF deal.SectorStartEpoch # epochUndefined THEN "ErrIllegalArgument"
  ELSE IF epoch >= proposal.StartEpoch THEN "ErrIllegalArgument"
  ELSE IF proposal.EndEpoch > sectorExpiration THEN "ErrIllegalArgument"
  ELSE "Ok"

\* validateDealCanActivate: the exit code of the first failed check.
validateDealCanActivate(minerAddr, sectorExpiration, deal, proposal, epoch) ==
  IF proposal.Provider # minerAddr THEN "ErrIllegalArgument"
  ELSE IF deal.SectorStartEpoch # epochUndefined THEN "ErrIllegalArgument"
  ELSE IF epoch > proposal.StartEpoch THEN "ErrIllegalArgument"
  ELSE IF proposal.EndEpoch > sectorExpiration THEN "ErrIllegalArgument"
  ELSE "Ok"

\* A faulty escrowAddress: a miner entry is open to every signable caller.
escrowAddressAnySignable(caller, a) ==
  LET res == ResolveAddress(a)
      nominal == res.addr
  IN IF ~res.ok
     THEN [code |-> "ErrIllegalArgument", nominal |-> a, recipient |-> a]
     ELSE [code |-> IF GetActorCodeCID(caller) \in CallerTypesSignable THEN "Ok"
                    ELSE "ErrForbidden",
           nominal |-> nominal,
           recipient |-> IF GetActorCodeCID(nominal) = "StorageMinerActorCodeID"
                         THEN RequestMinerControlAddrs(nominal).owner
                         ELSE nominal]

\* escrowAddress: the nominal address the balance is held against and the
\* recipient of withdrawals; the callers allowed are checked on the way.
escrowAddress(caller, a) ==
  LET res == ResolveAddress(a)
      nominal == res.addr
  IN IF ~res.ok
     THEN [code |-> "ErrIllegalArgument", nominal |-> a, recipient |-> a]
     ELSE IF GetActorCodeCID(nominal) = "StorageMinerActorCodeID"
     THEN LET ctl == RequestMinerControlAddrs(nominal)
          IN [code |-> IF caller \in {ctl.owner, ctl.worker} THEN "Ok"
                       ELSE "ErrForbidden",
              nominal |-> nominal, recipient |-> ctl.owner]
     ELSE [code |-> IF GetActorCodeCID(caller) \in CallerTypesSignable THEN "Ok"
                    ELSE "ErrForbidden",
           nominal |-> nominal, recipient |-> nominal]

(***************************************************************************)
(* Messages and outcomes.                                                  *)
(***************************************************************************)
Send(to, method, value, a, size) ==
  [to |-> to, method |-> method, value |-> value, addr |-> a, size |-> size]

SendFunds(to, value) == Send(to, "Send", value, "", 0)

NoRet == [DealWeight |-> 0, VerifiedDealWeight |-> 0, IDs |-> <<>>]

\* The outcome of a message: the state to commit, the exit code, the sends
\* in the order issued, the return value, the registry's remaining cap.
Outcome(st, code, sends, ret, cap) ==
  [st |-> st, code |-> code, sends |-> sends, ret |-> ret, cap |-> cap]

Failed(code) == Outcome(St, code, <<>>, NoRet, DataCap)

\* A message is atomic: on any abort the state is the one before the message
\* and no send of the message takes effect.  Committed(out) is the actor
\* state the message leaves, CommittedCap(out) the registry's cap.
Committed(out) == IF out.code = "Ok" THEN out.st ELSE St

CommittedCap(out) == IF out.code = "Ok" THEN out.cap ELSE DataCap

CommitState(out) ==
  /\ EscrowTable' = Committed(out).EscrowTable
  /\ LockedTable' = Committed(out).LockedTable
  /\ Proposals' = Committed(out).Proposals
  /\ States' = Committed(out).States
  /\ DealIDsByParty' = Committed(out).DealIDsByParty
  /\ NextID' = Committed(out).NextID
  /\ DataCap' = CommittedCap(out)
  /\ UNCHANGED mvars

\* The commit of a message, with the last message that committed kept in
\* `last`.
Commit(op, out) ==
  /\ CommitState(out)
  /\ last' = IF out.code = "Ok"
             THEN [op |-> op, sends |-> out.sends, ret |-> out.ret] ELSE last
  /\ UNCHANGED now

\* The same commit with the outcome not recorded.
CommitQuiet(out) ==
  /\ CommitState(out)
  /\ UNCHANGED <<now, last>>

(***************************************************************************)
(* WithdrawBalance                                                         *)
(***************************************************************************)
\* A faulty extraction: the locked balance is not kept as the floor.
WithdrawExtractNoFloor(r, nominal, amount) ==
  IF r.code # "Ok" THEN r
  ELSE [r EXCEPT
          !.st.EscrowTable =
             SetBal(@, nominal,
                    Bal(@, nominal) - SubtractWithMinimumAmount(@, nominal, amount, 0)),
          !.ex = SubtractWithMinimumAmount(r.st.EscrowTable, nominal, amount, 0)]

\* The extraction of WithdrawBalance (lines 87-103) on the state the deferred
\* update left: escrow above the locked balance, up to the amount asked.
WithdrawExtract(r, nominal, amount) ==
  IF r.code # "Ok" THEN r
  ELSE IF SubtractWithMinimumFails(r.st.EscrowTable, nominal,
                                   GetLockedBalance(r.st, nominal))
       THEN Abortf(r, "ErrIllegalState")
  ELSE [r EXCEPT
          !.st.EscrowTable =
             SetBal(@, nominal,
                    Bal(@, nominal)
                      - SubtractWithMinimumAmount(@, nominal, amount,
                                                  GetLockedBalance(r.st, nominal))),
          !.ex = SubtractWithMinimumAmount(r.st.EscrowTable, nominal, amount,
                                           GetLockedBalance(r.st, nominal))]

\* A faulty transaction: the extraction without the deferred update.
WithdrawTransactionNoUpdate(st, nominal, amount, epoch) ==
  WithdrawExtract(Begin(st), nominal, amount)

\* The state transaction of WithdrawBalance (lines 82-105): the deferred
\* update of the nominal address, then the extraction.
WithdrawTransaction(st, nominal, amount, epoch) ==
  WithdrawExtract(updatePendingDealStatesForParty(Begin(st), nominal, epoch),
                  nominal, amount)

\* Faulty sends: the recipient is paid the slashed total, not the extraction.
WithdrawSendsSlashedAmount(recipient, amountSlashedTotal, amountExtracted) ==
  (IF amountSlashedTotal > 0
   THEN <<SendFunds(BurntFundsActorAddr, amountSlashedTotal)>> ELSE <<>>)
  \o <<SendFunds(recipient, amountSlashedTotal)>>

\* The sends of WithdrawBalance: the slashed funds (if any) to the burnt-funds
\* actor, then the extracted amount to the recipient.
WithdrawSends(recipient, amountSlashedTotal, amountExtracted) ==
  (IF amountSlashedTotal > 0
   THEN <<SendFunds(BurntFundsActorAddr, amountSlashedTotal)>> ELSE <<>>)
  \o <<SendFunds(recipient, amountExtracted)>>

WithdrawOutcomeOf(r, recipient) ==
  Outcome(r.st, r.code, WithdrawSends(recipient, r.slashed, r.ex), NoRet, DataCap)

WithdrawBalanceResolved(ea, amount) ==
  IF ea.code # "Ok" THEN Failed(ea.code)
  ELSE WithdrawOutcomeOf(WithdrawTransaction(St, ea.nominal, amount, now), ea.recipient)

WithdrawBalanceOutcome(caller, a, amount) ==
  IF amount < 0 THEN Failed("ErrIllegalArgument")
  ELSE WithdrawBalanceResolved(escrowAddress(caller, a), amount)

(***************************************************************************)
(* AddBalance                                                              *)
(***************************************************************************)
AddBalanceOutcomeOf(r) == Outcome(r.st, r.code, <<>>, NoRet, DataCap)

AddBalanceResolved(ea, msgValue) ==
  IF ea.code # "Ok" THEN Failed(ea.code)
  ELSE AddBalanceOutcomeOf(
         AddLockedBalance(AddEscrowBalance(Begin(St), ea.nominal, msgValue),
                          ea.nominal, 0))

AddBalanceOutcome(caller, a, msgValue) ==
  AddBalanceResolved(escrowAddress(caller, a), msgValue)

(***************************************************************************)
(* PublishStorageDeals                                                     *)
(***************************************************************************)
\* The Verified Registry's UseBytes over the verified deals of the batch, in
\* order: the remaining cap, the messages sent, whether all succeeded.  The
\* registry knows one verified client, c1, under its ID or its key address.
RECURSIVE UseBytesAll(_, _)
UseBytesAll(deals, acc) ==
  IF deals = <<>> \/ ~acc.ok THEN acc
  ELSE LET p == Head(deals).Proposal
       IN IF ~p.VerifiedDeal THEN UseBytesAll(Tail(deals), acc)
          ELSE IF ~ResolveAddress(p.Client).ok
                  \/ ResolveAddress(p.Client).addr # "c1"
                  \/ p.PieceSize > acc.cap
               THEN [acc EXCEPT !.ok = FALSE]
          ELSE UseBytesAll(Tail(deals),
                 [acc EXCEPT !.cap = @ - p.PieceSize,
                             !.sends = Append(@, Send(VerifiedRegistryActorAddr,
                                          "UseBytes", 0, p.Client, p.PieceSize))])

\* proposals.Set(id, &deal.Proposal)
ProposalsSet(st, id, proposal) ==
  [st EXCEPT !.Proposals =
     [x \in (DOMAIN @) \cup {id} |-> IF x = id THEN proposal ELSE @[x]]]

\* A faulty end of an iteration: the id is not put into the provider's set.
PublishRecordClientOnly(r, proposal) ==
  IF r.code # "Ok" THEN r
  ELSE [r EXCEPT
          !.st = DbpPut(
                   ProposalsSet(generateStorageDealID(r.st).st,
                                generateStorageDealID(r.st).id, proposal),
                   proposal.Client, generateStorageDealID(r.st).id),
          !.ids = Append(@, generateStorageDealID(r.st).id)]

\* The end of an iteration (lines 230-244): a fresh id, the proposal stored
\* under it, the id put into the sets of both parties.
PublishRecord(r, proposal) ==
  IF r.code # "Ok" THEN r
  ELSE [r EXCEPT
          !.st = DbpPut(
                   DbpPut(
                     ProposalsSet(generateStorageDealID(r.st).st,
                                  generateStorageDealID(r.st).id, proposal),
                     proposal.Client, generateStorageDealID(r.st).id),
                   proposal.Provider, generateStorageDealID(r.st).id),
          !.ids = Append(@, generateStorageDealID(r.st).id)]

\* Lines 216-228 for the normalised proposal: the deferred updates of both
\* parties, then the two locks.
PublishLock(r, proposal, epoch) ==
  lockBalanceOrAbort(
    lockBalanceOrAbort(
      updatePendingDealStatesForParty(
        updatePendingDealStatesForParty(r, proposal.Client, epoch),
        proposal.Provider, epoch),
      proposal.Client, ClientBalanceRequirement(proposal)),
    proposal.Provider, ProviderBalanceRequirement(proposal))

\* A faulty iteration: a deal that fails a check is skipped, the rest of the
\* batch is published.
PublishDealSkip(r, deal, provider, providerRaw, epoch) ==
  IF r.code # "Ok" THEN r
  ELSE IF validateDeal(deal, epoch) # "Ok" THEN r
  ELSE IF deal.Proposal.Provider # provider /\ deal.Proposal.Provider # providerRaw
       THEN r
  ELSE IF ~ResolveAddress(deal.Proposal.Client).ok THEN r
  ELSE PublishRecord(
         PublishLock(r, [deal.Proposal EXCEPT
                           !.Provider = provider,
                           !.Client = ResolveAddress(deal.Proposal.Client).addr],
                     epoch),
         [deal.Proposal EXCEPT
            !.Provider = provider,
            !.Client = ResolveAddress(deal.Proposal.Client).addr])

\* A faulty iteration: the provider a deal names is not compared with the
\* provider of the batch.
PublishDealAnyProvider(r, deal, provider, providerRaw, epoch) ==
  IF r.code # "Ok" THEN r
  ELSE IF validateDeal(deal, epoch) # "Ok" THEN Abortf(r, validateDeal(deal, epoch))
  ELSE IF ~ResolveAddress(deal.Proposal.Client).ok THEN Abortf(r, "ErrNotFound")
  ELSE PublishRecord(
         PublishLock(r, [deal.Proposal EXCEPT
                           !.Provider = provider,
                           !.Client = ResolveAddress(deal.Proposal.Client).addr],
                     epoch),
         [deal.Proposal EXCEPT
            !.Provider = provider,
            !.Client = ResolveAddress(deal.Proposal.Client).addr])

\* One iteration of the publication loop (lines 204-245).
PublishDeal(r, deal, provider, providerRaw, epoch) ==
  IF r.code # "Ok" THEN r
  ELSE IF validateDeal(deal, epoch) # "Ok" THEN Abortf(r, validateDeal(deal, epoch))
  ELSE IF deal.Proposal.Provider # provider /\ deal.Proposal.Provider # providerRaw
       THEN Abortf(r, "ErrIllegalArgument")
  ELSE IF ~ResolveAddress(deal.Proposal.Client).ok THEN Abortf(r, "ErrNotFound")
  ELSE PublishRecord(
         PublishLock(r, [deal.Proposal EXCEPT
                           !.Provider = provider,
                           !.Client = ResolveAddress(deal.Proposal.Client).addr],
                     epoch),
         [deal.Proposal EXCEPT
            !.Provider = provider,
            !.Client = ResolveAddress(deal.Proposal.Client).addr])

RECURSIVE PublishLoop(_, _, _, _, _)
PublishLoop(r, deals, provider, providerRaw, epoch) ==
  IF deals = <<>> THEN r
  ELSE PublishLoop(PublishDeal(r, Head(deals), provider, providerRaw, epoch),
                   Tail(deals), provider, providerRaw, epoch)

\* The sends of PublishStorageDeals: UseBytes for the verified deals, then
\* the slashed total to the burnt-funds actor (line 261).
PublishOutcomeOf(r, ub) ==
  Outcome(r.st, r.code,
          ub.sends \o <<SendFunds(BurntFundsActorAddr, r.slashed)>>,
          [NoRet EXCEPT !.IDs = r.ids], ub.cap)

PublishVerified(ub, deals, provider, providerRaw) ==
  IF ~ub.ok THEN Failed("SendFailed")
  ELSE PublishOutcomeOf(PublishLoop(Begin(St), deals, provider, providerRaw, now), ub)

PublishStorageDealsOutcome(caller, deals) ==
  IF GetActorCodeCID(caller) \notin CallerTypesSignable THEN Failed("ErrForbidden")
  ELSE IF Len(deals) = 0 THEN Failed("ErrIllegalArgument")
  ELSE IF ~ResolveAddress(deals[1].Proposal.Provider).ok THEN Failed("ErrNotFound")
  ELSE IF RequestMinerControlAddrs(ResolveAddress(deals[1].Proposal.Provider).addr).worker
            # caller
       THEN Failed("ErrForbidden")
  ELSE PublishVerified(
         UseBytesAll(deals, [ok |-> TRUE, cap |-> DataCap, sends |-> <<>>]),
         deals, ResolveAddress(deals[1].Proposal.Provider).addr,
         deals[1].Proposal.Provider)

(***************************************************************************)
(* VerifyDealsOnSectorProveCommit                                          *)
(***************************************************************************)
\* Lines 313-330 for a deal that was found: the checks, the activation, the
\* weight of the deal added to the total of its kind.
VerifyDealOf(r, dealID, deal, proposal, minerAddr, sectorExpiry, epoch) ==
  IF validateDealCanActivate(minerAddr, sectorExpiry, deal, proposal, epoch) # "Ok"
  THEN Abortf(r, validateDealCanActivate(minerAddr, sectorExpiry, deal, proposal, epoch))
  ELSE [r EXCEPT
          !.st = SetDealState(@, dealID, [deal EXCEPT !.SectorStartEpoch = epoch]),
          !.vweight = IF proposal.VerifiedDeal
                      THEN @ + Duration(proposal) * proposal.PieceSize ELSE @,
          !.weight = IF proposal.VerifiedDeal
                     THEN @ ELSE @ + Duration(proposal) * proposal.PieceSize]

\* One iteration of the activation loop (lines 303-332).
VerifyDeal(r, dealID, minerAddr, sectorExpiry, epoch) ==
  IF r.code # "Ok" THEN r
  ELSE IF dealID \notin DOMAIN r.st.Proposals THEN Abortf(r, "ErrIllegalState")
  ELSE VerifyDealOf(r, dealID, GetDealState(r.st, dealID), r.st.Proposals[dealID],
                    minerAddr, sectorExpiry, epoch)

RECURSIVE VerifyLoop(_, _, _, _, _)
VerifyLoop(r, dealIDs, minerAddr, sectorExpiry, epoch) ==
  IF dealIDs = <<>> THEN r
  ELSE VerifyLoop(VerifyDeal(r, Head(dealIDs), minerAddr, sectorExpiry, epoch),
                  Tail(dealIDs), minerAddr, sectorExpiry, epoch)

VerifyOutcomeOf(r) ==
  Outcome(r.st, r.code, <<>>,
          [NoRet EXCEPT !.DealWeight = r.weight, !.VerifiedDealWeight = r.vweight],
          DataCap)

VerifyDealsOnSectorProveCommitOutcome(caller, dealIDs, sectorExpiry) ==
  IF GetActorCodeCID(caller) # "StorageMinerActorCodeID" THEN Failed("ErrForbidden")
  ELSE VerifyOutcomeOf(VerifyLoop(Begin(St), dealIDs, caller, sectorExpiry, now))

(***************************************************************************)
(* OnMinerSectorsTerminate                                                 *)
(***************************************************************************)
\* A faulty iteration: the provider of the deal is not compared with the
\* caller.
TerminateDealAnyProvider(r, dealID, minerAddr, epoch) ==
  IF r.code # "Ok" THEN r
  ELSE IF dealID \notin DOMAIN r.st.Proposals THEN Abortf(r, "ErrIllegalState")
  ELSE [r EXCEPT !.st = SetDealState(@, dealID,
                   [GetDealState(r.st, dealID) EXCEPT !.SlashEpoch = epoch])]

\* One iteration of the termination loop (lines 398-419).
TerminateDeal(r, dealID, minerAddr, epoch) ==
  IF r.code # "Ok" THEN r
  ELSE IF dealID \notin DOMAIN r.st.Proposals THEN Abortf(r, "ErrIllegalState")
  ELSE IF r.st.Proposals[dealID].Provider # minerAddr THEN Abortf(r, "AssertionFailed")
  ELSE [r EXCEPT !.st = SetDealState(@, dealID,
                   [GetDealState(r.st, dealID) EXCEPT !.SlashEpoch = epoch])]

RECURSIVE TerminateLoop(_, _, _, _)
TerminateLoop(r, dealIDs, minerAddr, epoch) ==
  IF dealIDs = <<>> THEN r
  ELSE TerminateLoop(TerminateDeal(r, Head(dealIDs), minerAddr, epoch),
                     Tail(dealIDs), minerAddr, epoch)

TerminateOutcomeOf(r) == Outcome(r.st, r.code, <<>>, NoRet, DataCap)

OnMinerSectorsTerminateOutcome(caller, dealIDs) ==
  IF GetActorCodeCID(caller) # "StorageMinerActorCodeID" THEN Failed("ErrForbidden")
  ELSE TerminateOutcomeOf(TerminateLoop(Begin(St), dealIDs, caller, now))

(***************************************************************************)
(* HandleExpiredDeals                                                      *)
(***************************************************************************)
\* A faulty epoch: the update runs for the epoch before the current one.
HandleExpiredDealsEpochStale(epoch) == epoch - 1

\* The epoch HandleExpiredDeals hands to the deferred update: rt.CurrEpoch().
HandleExpiredDealsEpoch(epoch) == epoch

\* A faulty burn: the slashed total is not sent.
HandleExpiredDealsBurnNothing(slashed) == <<SendFunds(BurntFundsActorAddr, 0)>>

\* The funds HandleExpiredDeals sends to the burnt-funds actor.
HandleExpiredDealsBurn(slashed) == <<SendFunds(BurntFundsActorAddr, slashed)>>

HandleExpiredOutcomeOf(r) ==
  Outcome(r.st, r.code, HandleExpiredDealsBurn(r.slashed), NoRet, DataCap)

HandleExpiredDealsOutcome(caller, dealIDs) ==
  IF GetActorCodeCID(caller) \notin CallerTypesSignable THEN Failed("ErrForbidden")
  ELSE HandleExpiredOutcomeOf(
         updatePendingDealStates(Begin(St), dealIDs, HandleExpiredDealsEpoch(now)))

(***************************************************************************)
(* HandleInitTimeoutDeals                                                  *)
(***************************************************************************)
\* big.Add(slashed, newlySlashed) with the result dropped: slashed stays as
\* it was (line 473).
InitTimeoutAccumulate(slashed, newlySlashed) == slashed

\* Lines 468-473 for a deal that timed out: the verified deal is remembered,
\* the deal is processed, the handler's `slashed` (kept in r.slashed) is
\* what the accumulation leaves.
InitTimeoutProcess(r, r1, deal) ==
  IF r1.code # "Ok" THEN r1
  ELSE [r1 EXCEPT
          !.slashed = InitTimeoutAccumulate(r.slashed, r1.slashed - r.slashed),
          !.verifiedDeals = IF deal.VerifiedDeal THEN Append(@, deal) ELSE @]

\* A faulty loop body: a deal that has not timed out is processed like one
\* that has.
InitTimeoutDealOfNoTimeoutTest(r, dealID, deal, state, epoch) ==
  IF state.SectorStartEpoch # epochUndefined THEN r
  ELSE InitTimeoutProcess(r, processDealInitTimedOut(r, dealID), deal)

InitTimeoutDealOf(r, dealID, deal, state, epoch) ==
  IF state.SectorStartEpoch # epochUndefined THEN r
  ELSE IF ~(epoch > deal.StartEpoch) THEN Abortf(r, "ErrIllegalArgument")
  ELSE InitTimeoutProcess(r, processDealInitTimedOut(r, dealID), deal)

\* One iteration of the loop (lines 460-479).
InitTimeoutDeal(r, dealID, epoch) ==
  IF r.code # "Ok" THEN r
  ELSE IF dealID \notin DOMAIN r.st.Proposals THEN Abortf(r, "ErrNotFound")
  ELSE InitTimeoutDealOf(r, dealID, r.st.Proposals[dealID],
                         GetDealState(r.st, dealID), epoch)

RECURSIVE InitTimeoutLoop(_, _, _)
InitTimeoutLoop(r, dealIDs, epoch) ==
  IF dealIDs = <<>> THEN r
  ELSE InitTimeoutLoop(InitTimeoutDeal(r, Head(dealIDs), epoch), Tail(dealIDs), epoch)

\* RestoreBytes for every verified deal that timed out, in order.
RestoreBytesSends(verifiedDeals) ==
  [i \in DOMAIN verifiedDeals |->
     Send(VerifiedRegistryActorAddr, "RestoreBytes", 0,
          verifiedDeals[i].Client, verifiedDeals[i].PieceSize)]

RECURSIVE SumSizes(_)
SumSizes(ds) == IF ds = <<>> THEN 0 ELSE Head(ds).PieceSize + SumSizes(Tail(ds))

\* The closure returns &slashed and the handler asserts the result to be an
\* abi.TokenAmount (lines 481-482).  What Transaction hands back for a
\* pointer is the runtime's business: either the assertion panics and the
\* message fails, or it yields the value of `slashed`.
InitTimeoutOutcomeOf(r, assertPanics) ==
  IF r.code # "Ok" THEN Failed(r.code)
  ELSE IF assertPanics THEN Failed("Panic")
  ELSE Outcome(r.st, "Ok",
               RestoreBytesSends(r.verifiedDeals)
                 \o <<SendFunds(BurntFundsActorAddr, r.slashed)>>,
               NoRet, DataCap + SumSizes(r.verifiedDeals))

HandleInitTimeoutDealsOutcome(caller, dealIDs, assertPanics) ==
  IF GetActorCodeCID(caller) \notin CallerTypesSignable THEN Failed("ErrForbidden")
  ELSE InitTimeoutOutcomeOf(InitTimeoutLoop(Begin(St), dealIDs, now), assertPanics)

(***************************************************************************)
(* Inputs of the messages.                                                 *)
(***************************************************************************)
ValueInputs == {0, 2}
AmountInputs == {-1, 1, MaxEscrow}
DealIDInputs == 0..(MaxDeals - 1)
IdListInputs == SeqsUpTo(DealIDInputs, MaxIdList)
SectorExpiryInputs == {2, 3}

\* (caller, address) pairs of AddBalance and WithdrawBalance: an account for
\* itself and through its key address, an address that does not resolve, the
\* worker and the owner for their miner, a stranger and the miner actor itself.
EscrowCallInputs ==
  { <<"c1", "c1">>, <<"c1", "k1">>, <<"c1", "x">>, <<"w1", "m1">>,
    <<"o1", "m1">>, <<"c1", "m1">>, <<"m1", "c1">> }

BaseProposal ==
  [PieceSize |-> 1, VerifiedDeal |-> FALSE, Client |-> "c1", Provider |-> "m1",
   StartEpoch |-> 1, EndEpoch |-> 3, StoragePricePerEpoch |-> 1,
   ProviderCollateral |-> 1, ClientCollateral |-> 1]

VerifiedProposal ==
  [BaseProposal EXCEPT !.VerifiedDeal = TRUE, !.PieceSize = 2, !.Client = "k1",
                       !.StartEpoch = 2, !.ClientCollateral = 0]

GoodDeals == {[Proposal |-> p, SigOk |-> TRUE] : p \in {BaseProposal, VerifiedProposal}}

BadDeals ==
  { [Proposal |-> [BaseProposal EXCEPT !.Provider = "m2"], SigOk |-> TRUE],
    [Proposal |-> [BaseProposal EXCEPT !.Client = "x"], SigOk |-> TRUE],
    [Proposal |-> BaseProposal, SigOk |-> FALSE] }

\* Batches: nothing, one deal, or a good deal followed by any deal.
BatchInputs ==
  {<<>>} \cup {<<d>> : d \in GoodDeals \cup BadDeals}
         \cup {<<d, e>> : d \in GoodDeals, e \in GoodDeals \cup BadDeals}

\* (caller, batch) pairs of PublishStorageDeals: the provider's worker with
\* every batch, the client and the miner actor with one.
PublishInputs ==
  {<<"w1", ds>> : ds \in BatchInputs}
    \cup {<<c, <<[Proposal |-> BaseProposal, SigOk |-> TRUE]>> >> : c \in {"c1", "m1"}}

\* Callers of the miner-only methods: the two miners with every list, an
\* account with one.
MinerCallInputs ==
  {<<m, ids>> : m \in Miners, ids \in IdListInputs} \cup {<<"c1", <<0>> >>}

\* Callers of the permissionless methods: an account with every list, a
\* miner actor with one.
SignableCallInputs ==
  {<<"c1", ids>> : ids \in IdListInputs} \cup {<<"m1", <<0>> >>}

(***************************************************************************)
(* The state machine.                                                      *)
(***************************************************************************)
NoMsg == [op |-> "none", sends |-> <<>>, ret |-> NoRet]

\* The proving period, its deadlines and their windows (policy.go:17-23),
\* scaled: a deadline for every epoch of the period, so that
\* WPoStPeriodDeadlines * WPoStChallengeWindow = WPoStProvingPeriod.
WPoStProvingPeriod == 2
WPoStPeriodDeadlines == WPoStProvingPeriod
WPoStChallengeWindow == WPoStProvingPeriod \div WPoStPeriodDeadlines

DeadlineIndexes == 0..(WPoStPeriodDeadlines - 1)
BoundaryInputs == 0..(WPoStProvingPeriod - 1)

\* Go's remainder: truncated division, the sign of the dividend (unit > 0).
Rem(e, unit) == IF e >= 0 THEN e % unit ELSE 0 - ((0 - e) % unit)

\* A faulty computation: the progress into the period is not wrapped when
\* the epoch's remainder is below the boundary.
ComputeProvingPeriodDeadlineNoWrap(boundary, currEpoch) ==
  [PeriodStart |-> currEpoch - (Rem(currEpoch, WPoStProvingPeriod) - boundary),
   Index |-> (Rem(currEpoch, WPoStProvingPeriod) - boundary) \div WPoStChallengeWindow]

\* The period that holds currEpoch begins at the greatest epoch that is not
\* above currEpoch and has the boundary as remainder; the deadline that is
\* open is the window currEpoch falls in.
ComputeProvingPeriodDeadline(boundary, currEpoch) ==
  IF Rem(currEpoch, WPoStProvingPeriod) >= boundary
  THEN [PeriodStart |-> currEpoch - (Rem(currEpoch, WPoStProvingPeriod) - boundary),
        Index |-> (Rem(currEpoch, WPoStProvingPeriod) - boundary)
                    \div WPoStChallengeWindow]
  ELSE [PeriodStart |-> currEpoch - (WPoStProvingPeriod
                                      - (boundary - Rem(currEpoch, WPoStProvingPeriod))),
        Index |-> (WPoStProvingPeriod - (boundary - Rem(currEpoch, WPoStProvingPeriod)))
                    \div WPoStChallengeWindow]

\* st.DeadlineInfo(currEpoch)
DeadlineInfo(st, currEpoch) ==
  ComputeProvingPeriodDeadline(st.Info.ProvingPeriodBoundary, currEpoch)

\* DeadlineInfo.PeriodEnd(): the last epoch of the period.
PeriodEnd(deadline) == deadline.PeriodStart + WPoStProvingPeriod - 1

\* The events a miner enrolls with the power actor: the epoch and the
\* payload (CronEventPayload: the type and the sectors).
CronEvent(epoch, eventType, sectors) ==
  [Epoch |-> epoch, EventType |-> eventType, Sectors |-> sectors]

\* The Constructor enrolls the cron of the end of the period that holds
\* the epoch of construction.
ConstructorEnrolls(periodBoundary, currEpoch) ==
  CronEvent(PeriodEnd(ComputeProvingPeriodDeadline(periodBoundary, currEpoch)),
            "ProvingPeriod", {})

\* ConstructDeadlines: an empty bitfield for every deadline.
ConstructDeadlines == [d \in DeadlineIndexes |-> {}]

\* miner.ConstructState: no deposits, no locked funds, empty tables and
\* bitfields, the boundary the constructor computed.
MinerConstructState(periodBoundary) ==
  [Info |-> [ProvingPeriodBoundary |-> periodBoundary],
   PreCommitDeposits |-> 0, LockedFunds |-> 0, VestingFunds |-> EmptyMap,
   PreCommittedSectors |-> EmptyMap, Sectors |-> EmptyMap, NewSectors |-> {},
   SectorExpirations |-> EmptyMap, Deadlines |-> ConstructDeadlines,
   Faults |-> {}, FaultEpochs |-> EmptyMap, Recoveries |-> {},
   PostSubmissions |-> {}]

NoCall == [op |-> "none", ret |-> 0, arg |-> 0]

\* The miner after its Constructor, run at epoch 0.
MinerInit(periodBoundary) ==
  /\ PreCommitDeposits = MinerConstructState(periodBoundary).PreCommitDeposits
  /\ LockedFunds = MinerConstructState(periodBoundary).LockedFunds
  /\ VestingFunds = MinerConstructState(periodBoundary).VestingFunds
  /\ PreCommittedSectors = MinerConstructState(periodBoundary).PreCommittedSectors
  /\ Sectors = MinerConstructState(periodBoundary).Sectors
  /\ Faults = MinerConstructState(periodBoundary).Faults
  /\ FaultEpochs = MinerConstructState(periodBoundary).FaultEpochs
  /\ Recoveries = MinerConstructState(periodBoundary).Recoveries
  /\ NewSectors = MinerConstructState(periodBoundary).NewSectors
  /\ SectorExpirations = MinerConstructState(periodBoundary).SectorExpirations
  /\ Deadlines = MinerConstructState(periodBoundary).Deadlines
  /\ PostSubmissions = MinerConstructState(periodBoundary).PostSubmissions
  /\ ProvingPeriodBoundary = MinerConstructState(periodBoundary).Info.ProvingPeriodBoundary
  /\ CronEvents = {ConstructorEnrolls(periodBoundary, 0)}
  /\ Balance = 0
  /\ mlast = NoCall

MarketInit ==
  /\ EscrowTable = ConstructState.EscrowTable
  /\ LockedTable = ConstructState.LockedTable
  /\ Proposals = ConstructState.Proposals
  /\ States = ConstructState.States
  /\ DealIDsByParty = ConstructState.DealIDsByParty
  /\ NextID = ConstructState.NextID
  /\ now = 0
  /\ DataCap = MaxDataCap
  /\ last = NoMsg

Init == MarketInit /\ MinerInit(0)

\* The same with a miner of any proving-period boundary.
InitMiner == MarketInit /\ \E b \in BoundaryInputs : MinerInit(b)

AddBalance(caller, a, msgValue) ==
  /\ Bal(EscrowTable, ResolveAddress(a).addr) + msgValue <= MaxEscrow
  /\ Commit("AddBalance", AddBalanceOutcome(caller, a, msgValue))

WithdrawBalance(caller, a, amount) ==
  Commit("WithdrawBalance", WithdrawBalanceOutcome(caller, a, amount))

PublishStorageDeals(caller, deals) ==
  /\ PublishStorageDealsOutcome(caller, deals).st.NextID <= MaxDealsObserved
  /\ Commit("PublishStorageDeals", PublishStorageDealsOutcome(caller, deals))

VerifyDealsOnSectorProveCommit(caller, dealIDs, sectorExpiry) ==
  Commit("VerifyDealsOnSectorProveCommit",
         VerifyDealsOnSectorProveCommitOutcome(caller, dealIDs, sectorExpiry))

OnMinerSectorsTerminate(caller, dealIDs) ==
  Commit("OnMinerSectorsTerminate", OnMinerSectorsTerminateOutcome(caller, dealIDs))

HandleExpiredDeals(caller, dealIDs) ==
  Commit("HandleExpiredDeals", HandleExpiredDealsOutcome(caller, dealIDs))

HandleInitTimeoutDeals(caller, dealIDs, assertPanics) ==
  Commit("HandleInitTimeoutDeals",
         HandleInitTimeoutDealsOutcome(caller, dealIDs, assertPanics))

\* The chain moves to the next epoch.
Tick ==
  /\ now < MaxEpoch
  /\ now' = now + 1
  /\ last' = NoMsg
  /\ UNCHANGED <<EscrowTable, LockedTable, Proposals, States, DealIDsByParty,
                 NextID, DataCap>>
  /\ UNCHANGED mvars

Next ==
  \/ \E ca \in EscrowCallInputs, v \in ValueInputs : AddBalance(ca[1], ca[2], v)
  \/ \E ca \in EscrowCallInputs, v \in AmountInputs : WithdrawBalance(ca[1], ca[2], v)
  \/ \E cd \in PublishInputs : PublishStorageDeals(cd[1], cd[2])
  \/ \E ci \in MinerCallInputs, e \in SectorExpiryInputs :
       VerifyDealsOnSectorProveCommit(ci[1], ci[2], e)
  \/ \E ci \in MinerCallInputs : OnMinerSectorsTerminate(ci[1], ci[2])
  \/ \E ci \in SignableCallInputs : HandleExpiredDeals(ci[1], ci[2])
  \/ \E ci \in SignableCallInputs, b \in BOOLEAN :
       HandleInitTimeoutDeals(ci[1], ci[2], b)
  \/ Tick

Spec == Init /\ [][Next]_vars

(***************************************************************************)
(* The same machine with up to MaxDeals deals and the outcomes of the      *)
(* messages not recorded: the state space of the actor state alone.        *)
(***************************************************************************)
TickQuiet ==
  /\ now < MaxEpoch
  /\ now' = now + 1
  /\ UNCHANGED <<EscrowTable, LockedTable, Proposals, States, DealIDsByParty,
                 NextID, DataCap, last>>
  /\ UNCHANGED mvars

NextQuiet ==
  \/ \E ca \in EscrowCallInputs, v \in ValueInputs :
       /\ Bal(EscrowTable, ResolveAddress(ca[2]).addr) + v <= MaxEscrow
       /\ CommitQuiet(AddBalanceOutcome(ca[1], ca[2], v))
  \/ \E ca \in EscrowCallInputs, v \in AmountInputs :
       CommitQuiet(WithdrawBalanceOutcome(ca[1], ca[2], v))
  \/ \E cd \in PublishInputs :
       /\ PublishStorageDealsOutcome(cd[1], cd[2]).st.NextID <= MaxDeals
       /\ CommitQuiet(PublishStorageDealsOutcome(cd[1], cd[2]))
  \/ \E ci \in MinerCallInputs, e \in SectorExpiryInputs :
       CommitQuiet(VerifyDealsOnSectorProveCommitOutcome(ci[1], ci[2], e))
  \/ \E ci \in MinerCallInputs :
       CommitQuiet(OnMinerSectorsTerminateOutcome(ci[1], ci[2]))
  \/ \E ci \in SignableCallInputs :
       CommitQuiet(HandleExpiredDealsOutcome(ci[1], ci[2]))
  \/ \E ci \in SignableCallInputs, b \in BOOLEAN :
       CommitQuiet(HandleInitTimeoutDealsOutcome(ci[1], ci[2], b))
  \/ TickQuiet

SpecQuiet == Init /\ [][NextQuiet]_vars

(***************************************************************************)
(* Properties.  A property over "every message" is stated over the outcome *)
(* the handler computes in a reachable state for each of its inputs: the   *)
(* action installs Committed(outcome), CommittedCap(outcome).              *)
(***************************************************************************)
Distinct(ids) == \A i, j \in DOMAIN ids : i # j => ids[i] # ids[j]

DealGone(st, d) ==
  /\ d \notin DOMAIN st.Proposals
  /\ d \notin DOMAIN st.States
  /\ \A a \in DOMAIN st.DealIDsByParty : d \notin st.DealIDsByParty[a]

\* elapsedStart in the words of the claims: LastUpdatedEpoch if set and later
\* than SectorStartEpoch, else SectorStartEpoch.
ClaimedElapsedStart(s) ==
  IF s.LastUpdatedEpoch # epochUndefined /\ s.LastUpdatedEpoch > s.SectorStartEpoch
  THEN s.LastUpdatedEpoch ELSE s.SectorStartEpoch

\* C1: in every reachable state, every address a has
\* 0 <= Locked[a] <= Escrow[a].
C1_LockedWithinEscrow ==
  \A a \in IDAddrs \cup DOMAIN EscrowTable \cup DOMAIN LockedTable :
    /\ 0 <= Bal(LockedTable, a)
    /\ Bal(LockedTable, a) <= Bal(EscrowTable, a)

\* A party with funds locked whose escrow has been drawn down to exactly the
\* locked amount.
C1_Witness ==
  \E a \in IDAddrs :
    /\ Bal(LockedTable, a) > 0
    /\ Bal(LockedTable, a) = Bal(EscrowTable, a)
    /\ a \in DOMAIN DealIDsByParty /\ DealIDsByParty[a] # {}

\* C2: WithdrawBalance(addr, amount) with amount >= 0 that succeeds leaves
\* the state the deferred update of the nominal address leaves, except that
\* Escrow[nominal] is lower by min(amount, Escrow[nominal] - Locked[nominal])
\* read after the update; that amount is the last send, to the recipient;
\* less than the amount asked is paid only if the escrow is then down to the
\* locked balance.  A negative amount fails with ErrIllegalArgument and
\* changes nothing.
C2_WithdrawExact ==
  \A ca \in EscrowCallInputs, v \in AmountInputs :
    LET out == WithdrawBalanceOutcome(ca[1], ca[2], v)
        ea == escrowAddress(ca[1], ca[2])
        upd == updatePendingDealStatesForParty(Begin(St), ea.nominal, now)
        ex == Min(v, Bal(upd.st.EscrowTable, ea.nominal)
                       - Bal(upd.st.LockedTable, ea.nominal))
    IN IF v < 0
       THEN out.code = "ErrIllegalArgument" /\ Committed(out) = St
       ELSE out.code = "Ok" =>
              /\ upd.code = "Ok"
              /\ \A x \in IDAddrs :
                   Bal(out.st.EscrowTable, x)
                     = Bal(upd.st.EscrowTable, x) - (IF x = ea.nominal THEN ex ELSE 0)
              /\ out.st.LockedTable = upd.st.LockedTable
              /\ out.st.Proposals = upd.st.Proposals
              /\ out.st.States = upd.st.States
              /\ out.st.DealIDsByParty = upd.st.DealIDsByParty
              /\ out.st.NextID = upd.st.NextID
              /\ out.sends[Len(out.sends)] = SendFunds(ea.recipient, ex)
              /\ ex < v => Bal(out.st.EscrowTable, ea.nominal)
                             = Bal(out.st.LockedTable, ea.nominal)

\* A withdrawal has committed whose deferred update slashed a deal of the
\* nominal address and which then paid out part of what was asked or all.
C2_Witness ==
  /\ last.op = "WithdrawBalance"
  /\ Len(last.sends) = 2
  /\ last.sends[1].to = BurntFundsActorAddr /\ last.sends[1].value > 0
  /\ last.sends[2].value > 0

\* C3: the verified bytes and the client's requirement of deals 1..i of a
\* batch, and what makes deal i fail whatever the deals before it did.
RECURSIVE VerifiedBytesUpTo(_, _)
VerifiedBytesUpTo(deals, i) ==
  IF i = 0 THEN 0
  ELSE VerifiedBytesUpTo(deals, i - 1)
         + (IF deals[i].Proposal.VerifiedDeal THEN deals[i].Proposal.PieceSize ELSE 0)

RECURSIVE ClientRequirementUpTo(_, _, _)
ClientRequirementUpTo(deals, i, client) ==
  IF i = 0 THEN 0
  ELSE ClientRequirementUpTo(deals, i - 1, client)
         + (IF ResolveAddress(deals[i].Proposal.Client).addr = client
            THEN ClientBalanceRequirement(deals[i].Proposal) ELSE 0)

DealMustFail(deals, i) ==
  \/ validateDeal(deals[i], now) # "Ok"
  \/ deals[i].Proposal.Provider # deals[1].Proposal.Provider
  \/ ~ResolveAddress(deals[i].Proposal.Client).ok
  \/ /\ deals[i].Proposal.VerifiedDeal
     /\ VerifiedBytesUpTo(deals, i) > DataCap
  \/ ClientRequirementUpTo(deals, i, ResolveAddress(deals[i].Proposal.Client).addr)
       > Bal(EscrowTable, ResolveAddress(deals[i].Proposal.Client).addr)

\* C3: a batch of PublishStorageDeals with a deal that fails validation,
\* address resolution, the registry's UseBytes or the locking of the
\* client's funds aborts, and Proposals, DealIDsByParty, NextID, Escrow and
\* Locked (and States, and the registry's cap) are as before the message.
C3_PublishAllOrNothing ==
  \A cd \in PublishInputs :
    (\E i \in DOMAIN cd[2] : DealMustFail(cd[2], i)) =>
       /\ PublishStorageDealsOutcome(cd[1], cd[2]).code # "Ok"
       /\ Committed(PublishStorageDealsOutcome(cd[1], cd[2])) = St
       /\ CommittedCap(PublishStorageDealsOutcome(cd[1], cd[2])) = DataCap

\* A batch of two whose first deal alone would be published and whose second
\* deal fails is handed in, after a deal has been published.
C3_Witness ==
  /\ NextID > 0
  /\ \E cd \in PublishInputs :
       /\ Len(cd[2]) = 2
       /\ PublishStorageDealsOutcome(cd[1], <<cd[2][1]>>).code = "Ok"
       /\ ~DealMustFail(cd[2], 1)
       /\ DealMustFail(cd[2], 2)

\* C4: a deal id is a key of Proposals iff it is in the sets of its client
\* and of its provider in DealIDsByParty; no set holds an id that Proposals
\* lacks, or the id of a deal of other parties.
C4_ProposalsMatchParties ==
  /\ \A d \in DOMAIN Proposals :
       /\ d \in DealsOfParty(St, Proposals[d].Client)
       /\ d \in DealsOfParty(St, Proposals[d].Provider)
  /\ \A a \in DOMAIN DealIDsByParty : \A d \in DealIDsByParty[a] :
       /\ d \in DOMAIN Proposals
       /\ a \in {Proposals[d].Client, Proposals[d].Provider}

\* Two deals were published, one of them has been deleted and the other is
\* still there.
C4_Witness ==
  /\ NextID = 2
  /\ Cardinality(DOMAIN Proposals) = 1
  /\ \E a \in DOMAIN DealIDsByParty : DealIDsByParty[a] # {}

\* C5: the deferred update (driven by HandleExpiredDeals at epoch now) of an
\* activated deal that is not slashed, when it completes, moves
\* price x (min(now, EndEpoch) - elapsedStart) from the client's locked escrow
\* to the provider's unlocked escrow and sets LastUpdatedEpoch = now; if
\* min(now, EndEpoch) = EndEpoch it also unlocks both collaterals and deletes
\* the deal; nothing is slashed.
ActiveDeals ==
  {d \in DOMAIN Proposals :
     GetDealState(St, d).SectorStartEpoch >= 0 /\ GetDealState(St, d).SlashEpoch < 0}

C5_ActiveDealUpdate ==
  \A d \in ActiveDeals :
    LET p == Proposals[d]
        s == GetDealState(St, d)
        out == HandleExpiredDealsOutcome("c1", <<d>>)
        pay == p.StoragePricePerEpoch
                 * (Min(now, p.EndEpoch) - ClaimedElapsedStart(s))
        expired == Min(now, p.EndEpoch) = p.EndEpoch
    IN out.code = "Ok" =>
         /\ Bal(out.st.EscrowTable, p.Client) = Bal(EscrowTable, p.Client) - pay
         /\ Bal(out.st.LockedTable, p.Client)
              = Bal(LockedTable, p.Client) - pay
                  - (IF expired THEN p.ClientCollateral ELSE 0)
         /\ Bal(out.st.EscrowTable, p.Provider) = Bal(EscrowTable, p.Provider) + pay
         /\ Bal(out.st.LockedTable, p.Provider)
              = Bal(LockedTable, p.Provider)
                  - (IF expired THEN p.ProviderCollateral ELSE 0)
         /\ out.sends = <<SendFunds(BurntFundsActorAddr, 0)>>
         /\ IF expired THEN DealGone(out.st, d)
            ELSE /\ out.st.Proposals = Proposals
                 /\ out.st.DealIDsByParty = DealIDsByParty
                 /\ GetDealState(out.st, d) = [s EXCEPT !.LastUpdatedEpoch = now]

\* An active deal that an update has settled up to the current epoch, after
\* its activation, and whose next update completes.
C5_Witness ==
  \E d \in ActiveDeals :
    /\ States[d].LastUpdatedEpoch = now
    /\ States[d].SectorStartEpoch < now
    /\ Proposals[d].StoragePricePerEpoch > 0
    /\ HandleExpiredDealsOutcome("c1", <<d>>).code = "Ok"

\* C6: the deferred update (driven by HandleExpiredDeals) of an activated
\* deal whose SlashEpoch is set, when it completes, pays the provider the
\* price of the epochs [elapsedStart, SlashEpoch) out of the client's locked
\* escrow, releases at least the client's collateral to the client's
\* unlocked escrow, takes the provider collateral out of the provider's
\* escrow, deletes the deal, and HandleExpiredDeals sends exactly the
\* provider collateral to the burnt-funds actor.
SlashedDeals ==
  {d \in DOMAIN Proposals :
     GetDealState(St, d).SectorStartEpoch >= 0 /\ GetDealState(St, d).SlashEpoch >= 0}

C6_SlashedDealUpdate ==
  \A d \in SlashedDeals :
    LET p == Proposals[d]
        s == GetDealState(St, d)
        out == HandleExpiredDealsOutcome("c1", <<d>>)
        pay == p.StoragePricePerEpoch * (s.SlashEpoch - ClaimedElapsedStart(s))
    IN out.code = "Ok" =>
         /\ Bal(out.st.EscrowTable, p.Client) = Bal(EscrowTable, p.Client) - pay
         /\ Bal(out.st.LockedTable, p.Client)
              <= Bal(LockedTable, p.Client) - pay - p.ClientCollateral
         /\ Bal(out.st.EscrowTable, p.Provider)
              = Bal(EscrowTable, p.Provider) + pay - p.ProviderCollateral
         /\ Bal(out.st.LockedTable, p.Provider)
              = Bal(LockedTable, p.Provider) - p.ProviderCollateral
         /\ out.sends = <<SendFunds(BurntFundsActorAddr, p.ProviderCollateral)>>
         /\ DealGone(out.st, d)

\* A deal terminated after an epoch of service, with collateral at stake,
\* whose update completes.
C6_Witness ==
  \E d \in SlashedDeals :
    /\ States[d].SlashEpoch > ClaimedElapsedStart(States[d])
    /\ Proposals[d].ProviderCollateral > 0
    /\ Proposals[d].ClientCollateral > 0
    /\ HandleExpiredDealsOutcome("c1", <<d>>).code = "Ok"

\* C7: what the listed deals lock for a client, what they stake for a
\* provider.
RECURSIVE ClientRequirementOf(_, _)
ClientRequirementOf(ids, a) ==
  IF ids = <<>> THEN 0
  ELSE ClientRequirementOf(Tail(ids), a)
         + (IF Proposals[Head(ids)].Client = a
            THEN ClientBalanceRequirement(Proposals[Head(ids)]) ELSE 0)

RECURSIVE ProviderCollateralOf(_, _)
ProviderCollateralOf(ids, a) ==
  IF ids = <<>> THEN 0
  ELSE ProviderCollateralOf(Tail(ids), a)
         + (IF Proposals[Head(ids)].Provider = a
            THEN Proposals[Head(ids)].ProviderCollateral ELSE 0)

TimedOut(d) ==
  /\ d \in DOMAIN Proposals
  /\ GetDealState(St, d).SectorStartEpoch = epochUndefined
  /\ now > Proposals[d].StartEpoch

\* C7: HandleInitTimeoutDeals over deals that were never activated and whose
\* StartEpoch has passed, when it completes, unlocks each client's
\* requirement, takes each provider collateral out of the provider's escrow,
\* deletes the deals, sends RestoreBytes(client, pieceSize) for the verified
\* ones, and sends the sum of the provider collaterals to the burnt-funds
\* actor.
C7_InitTimeoutBurnsCollateral ==
  \A ids \in IdListInputs, assertPanics \in BOOLEAN :
    (ids # <<>> /\ Distinct(ids) /\ \A i \in DOMAIN ids : TimedOut(ids[i])) =>
      LET out == HandleInitTimeoutDealsOutcome("c1", ids, assertPanics)
      IN out.code = "Ok" =>
         /\ \A i \in DOMAIN ids : DealGone(out.st, ids[i])
         /\ \A a \in IDAddrs :
              /\ Bal(out.st.LockedTable, a)
                   = Bal(LockedTable, a) - ClientRequirementOf(ids, a)
                       - ProviderCollateralOf(ids, a)
              /\ Bal(out.st.EscrowTable, a)
                   = Bal(EscrowTable, a) - ProviderCollateralOf(ids, a)
         /\ \A i \in DOMAIN ids :
              Proposals[ids[i]].VerifiedDeal =>
                \E k \in DOMAIN out.sends :
                  out.sends[k] = Send(VerifiedRegistryActorAddr, "RestoreBytes", 0,
                                      Proposals[ids[i]].Client,
                                      Proposals[ids[i]].PieceSize)
         /\ out.sends[Len(out.sends)]
              = SendFunds(BurntFundsActorAddr,
                          ProviderCollateralOf(ids, Proposals[ids[1]].Provider))

\* C8: whether VerifyDealsOnSectorProveCommit may activate deal d for the
\* caller in a sector that expires at sectorExpiry.
CanActivate(caller, d, sectorExpiry) ==
  /\ Proposals[d].Provider = caller
  /\ GetDealState(St, d).SectorStartEpoch = epochUndefined
  /\ now <= Proposals[d].StartEpoch
  /\ Proposals[d].EndEpoch <= sectorExpiry

RECURSIVE DealSpaceTimeOf(_, _)
DealSpaceTimeOf(ids, verifiedOnly) ==
  IF ids = <<>> THEN 0
  ELSE DealSpaceTimeOf(Tail(ids), verifiedOnly)
         + (IF verifiedOnly => Proposals[Head(ids)].VerifiedDeal
            THEN Proposals[Head(ids)].PieceSize
                   * (Proposals[Head(ids)].EndEpoch - Proposals[Head(ids)].StartEpoch)
            ELSE 0)

\* C9: VerifyDealsOnSectorProveCommit returns DealWeight = the sum over all
\* listed deals of pieceSize x (EndEpoch - StartEpoch) and VerifiedDealWeight
\* = that sum over the verified ones; both are 0 for no deals.
C9_DealWeightSumsAllDeals ==
  \A ci \in MinerCallInputs, e \in SectorExpiryInputs :
    LET out == VerifyDealsOnSectorProveCommitOutcome(ci[1], ci[2], e)
    IN out.code = "Ok" =>
         /\ out.ret.DealWeight = DealSpaceTimeOf(ci[2], FALSE)
         /\ out.ret.VerifiedDealWeight = DealSpaceTimeOf(ci[2], TRUE)

\* C10: the deferred update of the deals of a party, applied at the same
\* epoch to the state it has just left, changes nothing and slashes nothing.
C10_UpdateIdempotent ==
  \A a \in IDAddrs :
    LET once == updatePendingDealStatesForParty(Begin(St), a, now)
        twice == updatePendingDealStatesForParty(Begin(once.st), a, now)
    IN once.code = "Ok" =>
         /\ twice.code = "Ok"
         /\ twice.st = once.st
         /\ twice.slashed = 0

\* A party whose update settles a payment on a deal that stays.
C10_Witness ==
  \E a \in IDAddrs :
    LET once == updatePendingDealStatesForParty(Begin(St), a, now)
    IN /\ once.code = "Ok"
       /\ once.st.EscrowTable # EscrowTable
       /\ DealsOfParty(once.st, a) # {}

\* C11: the round trip AddBalance(a) with value x, then WithdrawBalance(a, x),
\* both at epoch now and by the same caller, for an address a whose locked
\* balance is zero.
RoundTripValues == 0..MaxEscrow

RoundTripWithdraw(ea, added, x) ==
  WithdrawOutcomeOf(WithdrawTransaction(added.st, ea.nominal, x, now), ea.recipient)

SameBalances(t, u) == \A a \in IDAddrs : Bal(t, a) = Bal(u, a)

\* The claim as stated: x goes back to the sender, and the state after the
\* withdrawal is the state before the deposit.
C11_RoundTripToSender ==
  \A ca \in EscrowCallInputs, x \in RoundTripValues :
    LET ea == escrowAddress(ca[1], ca[2])
        added == AddBalanceOutcome(ca[1], ca[2], x)
        back == RoundTripWithdraw(ea, added, x)
    IN (ea.code = "Ok" /\ GetLockedBalance(St, ea.nominal) = 0) =>
         /\ added.code = "Ok"
         /\ back.code = "Ok"
         /\ back.sends = <<SendFunds(ca[1], x)>>
         /\ back.st = St

\* C11 (amended): for an address a with no locked funds and no deal in
\* DealIDsByParty, and x >= 0, AddBalance(a) with value x followed by
\* WithdrawBalance(a, x) sends x, in one send, to a's recipient (the owner
\* of a miner address, the address itself otherwise), leaves every escrow
\* and locked balance and every deal as before the AddBalance, and leaves a
\* with an entry in both tables; the state is equal to the state before
\* when a had both entries already.
C11_RoundTripToRecipient ==
  \A ca \in EscrowCallInputs, x \in RoundTripValues :
    LET ea == escrowAddress(ca[1], ca[2])
        added == AddBalanceOutcome(ca[1], ca[2], x)
        back == RoundTripWithdraw(ea, added, x)
    IN (/\ ea.code = "Ok"
        /\ GetLockedBalance(St, ea.nominal) = 0
        /\ DealsOfParty(St, ea.nominal) = {}) =>
         /\ added.code = "Ok"
         /\ Bal(added.st.EscrowTable, ea.nominal) = Bal(EscrowTable, ea.nominal) + x
         /\ back.code = "Ok"
         /\ back.sends = <<SendFunds(ea.recipient, x)>>
         /\ SameBalances(back.st.EscrowTable, EscrowTable)
         /\ SameBalances(back.st.LockedTable, LockedTable)
         /\ back.st.Proposals = Proposals
         /\ back.st.States = States
         /\ back.st.DealIDsByParty = DealIDsByParty
         /\ back.st.NextID = NextID
         /\ ea.nominal \in DOMAIN back.st.EscrowTable
         /\ ea.nominal \in DOMAIN back.st.LockedTable
         /\ (ea.nominal \in DOMAIN EscrowTable /\ ea.nominal \in DOMAIN LockedTable)
              => back.st = St

\* A withdrawal for the miner has just paid its owner, the miner has escrow
\* left, nothing locked and no deal, and the round trip by its worker (not
\* the recipient) with a positive value is accepted.
C11_Witness ==
  /\ last.op = "WithdrawBalance"
  /\ last.sends = <<SendFunds("o1", 1)>>
  /\ Bal(EscrowTable, "m1") > 0
  /\ GetLockedBalance(St, "m1") = 0
  /\ DealsOfParty(St, "m1") = {}
  /\ \E x \in RoundTripValues :
       /\ x > 0
       /\ RoundTripWithdraw(escrowAddress("w1", "m1"),
                            AddBalanceOutcome("w1", "m1", x), x).sends
            = <<SendFunds("o1", x)>>

\* C12: AddBalance and WithdrawBalance for an address that resolves to a
\* miner succeed only for a caller that is the miner's owner or worker, and
\* the withdrawal pays the owner; for any other address they succeed only
\* for a caller of a signable type, and the withdrawal pays the resolved
\* address itself; a caller that fails the test gets ErrForbidden and
\* changes nothing.  Every send of any message that carries funds goes to
\* the burnt-funds actor, except the last send of a WithdrawBalance, which
\* goes to the recipient of the address the withdrawal names.
EscrowCallers == IDAddrs
EscrowAddresses == IDAddrs \cup {"k1", "x"}

CallerAllowed(caller, nominal) ==
  IF nominal \in Miners
  THEN caller = RequestMinerControlAddrs(nominal).owner
         \/ caller = RequestMinerControlAddrs(nominal).worker
  ELSE caller \in Accounts

RecipientOf(nominal) ==
  IF nominal \in Miners THEN RequestMinerControlAddrs(nominal).owner ELSE nominal

FundsOnlyBurnt(sends) ==
  \A i \in 1..Len(sends) : sends[i].value > 0 => sends[i].to = BurntFundsActorAddr

C12_EscrowCallersAndRecipients ==
  /\ \A c \in EscrowCallers, a \in EscrowAddresses :
       LET nominal == ResolveAddress(a).addr
           added == AddBalanceOutcome(c, a, 1)
           back == WithdrawBalanceOutcome(c, a, 1)
       IN /\ added.code = "Ok" => CallerAllowed(c, nominal)
          /\ added.sends = <<>>
          /\ back.code = "Ok" =>
               /\ CallerAllowed(c, nominal)
               /\ back.sends[Len(back.sends)].to = RecipientOf(nominal)
               /\ FundsOnlyBurnt(SubSeq(back.sends, 1, Len(back.sends) - 1))
          /\ (ResolveAddress(a).ok /\ ~CallerAllowed(c, nominal)) =>
               /\ added.code = "ErrForbidden" /\ Committed(added) = St
               /\ back.code = "ErrForbidden" /\ Committed(back) = St
  /\ \A cd \in PublishInputs :
       FundsOnlyBurnt(PublishStorageDealsOutcome(cd[1], cd[2]).sends)
  /\ \A ci \in MinerCallInputs :
       /\ \A e \in SectorExpiryInputs :
            FundsOnlyBurnt(VerifyDealsOnSectorProveCommitOutcome(ci[1], ci[2], e).sends)
       /\ FundsOnlyBurnt(OnMinerSectorsTerminateOutcome(ci[1], ci[2]).sends)
  /\ \A ci \in SignableCallInputs :
       /\ FundsOnlyBurnt(HandleExpiredDealsOutcome(ci[1], ci[2]).sends)
       /\ \A b \in BOOLEAN :
            FundsOnlyBurnt(HandleInitTimeoutDealsOutcome(ci[1], ci[2], b).sends)

\* A withdrawal for the miner has burnt slashed funds and paid the owner,
\* and in the state it left the worker may withdraw again, a stranger may
\* not, and any account may withdraw for the client.
C12_Witness ==
  /\ last.op = "WithdrawBalance"
  /\ Len(last.sends) = 2
  /\ last.sends[2].to = "o1"
  /\ WithdrawBalanceOutcome("w1", "m1", 1).code = "Ok"
  /\ WithdrawBalanceOutcome("c1", "m1", 1).code = "ErrForbidden"
  /\ WithdrawBalanceOutcome("w1", "c1", 1).code = "Ok"

\* C13: the callers and batches tried: every actor as caller; the batches
\* of the state machine, a batch for the second miner alone and followed by
\* a deal of the first, and a batch whose provider does not resolve.
PublishCallers == IDAddrs

OtherMinerDeal == [Proposal |-> [BaseProposal EXCEPT !.Provider = "m2"], SigOk |-> TRUE]

PublishBatches ==
  BatchInputs
    \cup { <<OtherMinerDeal>>,
           <<OtherMinerDeal, [Proposal |-> BaseProposal, SigOk |-> TRUE]>>,
           <<[Proposal |-> [BaseProposal EXCEPT !.Provider = "x"], SigOk |-> TRUE]>> }

WorkerOfFirst(deals) ==
  RequestMinerControlAddrs(ResolveAddress(deals[1].Proposal.Provider).addr).worker

NamesOtherProvider(deals) ==
  \E i \in DOMAIN deals : deals[i].Proposal.Provider # deals[1].Proposal.Provider

FirstOtherProvider(deals) ==
  CHOOSE i \in DOMAIN deals :
    /\ deals[i].Proposal.Provider # deals[1].Proposal.Provider
    /\ \A j \in 1..(i - 1) : deals[j].Proposal.Provider = deals[1].Proposal.Provider

\* The claim as stated, for callers of a signable type and a first provider
\* that resolves: the three codes, whatever else is wrong with the batch.
C13_PublishCodesAsStated ==
  \A c \in Accounts, ds \in PublishBatches :
    LET out == PublishStorageDealsOutcome(c, ds)
    IN /\ ds = <<>> => out.code = "ErrIllegalArgument"
       /\ (ds # <<>> /\ ResolveAddress(ds[1].Proposal.Provider).ok) =>
            /\ out.code = "Ok" => (c = WorkerOfFirst(ds) /\ ~NamesOtherProvider(ds))
            /\ c # WorkerOfFirst(ds) => out.code = "ErrForbidden"
            /\ (c = WorkerOfFirst(ds) /\ NamesOtherProvider(ds)) =>
                 out.code = "ErrIllegalArgument"

\* C13 (amended): PublishStorageDeals publishes only for a caller of a
\* signable type that is the worker of the first deal's provider and a
\* batch whose deals all name that provider.  The checks fail in this
\* order: a caller not of a signable type gets ErrForbidden; an empty batch
\* ErrIllegalArgument; a first provider that does not resolve ErrNotFound;
\* a caller that is not the provider's worker ErrForbidden; then the
\* registry's UseBytes for the verified deals; then deal by deal.  A batch
\* by the worker with a deal of another provider is always rejected and
\* changes nothing; its code is ErrIllegalArgument when the registry
\* accepts the batch and the deals before the first such deal are published.
C13_PublishCallerAndProvider ==
  \A c \in PublishCallers, ds \in PublishBatches :
    LET out == PublishStorageDealsOutcome(c, ds)
    IN IF c \notin Accounts THEN out.code = "ErrForbidden"
       ELSE IF ds = <<>> THEN out.code = "ErrIllegalArgument"
       ELSE IF ~ResolveAddress(ds[1].Proposal.Provider).ok
            THEN out.code = "ErrNotFound"
       ELSE IF c # WorkerOfFirst(ds) THEN out.code = "ErrForbidden"
       ELSE IF NamesOtherProvider(ds)
            THEN /\ out.code # "Ok"
                 /\ Committed(out) = St
                 /\ CommittedCap(out) = DataCap
                 /\ (/\ UseBytesAll(ds, [ok |-> TRUE, cap |-> DataCap,
                                          sends |-> <<>>]).ok
                     /\ PublishStorageDealsOutcome(
                          c, SubSeq(ds, 1, FirstOtherProvider(ds) - 1)).code = "Ok")
                      => out.code = "ErrIllegalArgument"
       ELSE TRUE

\* A batch has been published, and the worker now hands in a batch whose
\* first deal alone would be published and whose second deal names the
\* other miner.
C13_Witness ==
  /\ last.op = "PublishStorageDeals"
  /\ Len(last.ret.IDs) > 0
  /\ \E ds \in PublishBatches :
       /\ Len(ds) = 2
       /\ NamesOtherProvider(ds)
       /\ PublishStorageDealsOutcome("w1", <<ds[1]>>).code = "Ok"
       /\ PublishStorageDealsOutcome("w1", ds).code = "ErrIllegalArgument"

(***************************************************************************)
(* Storage Miner actor: the State (actors/builtin/miner/miner_state.go).   *)
(***************************************************************************)
MaxVestEpoch == 4
MaxLockedFunds == 5

MSt ==
  [Info |-> [ProvingPeriodBoundary |-> ProvingPeriodBoundary],
   PreCommitDeposits |-> PreCommitDeposits, LockedFunds |-> LockedFunds,
   VestingFunds |-> VestingFunds, PreCommittedSectors |-> PreCommittedSectors,
   Sectors |-> Sectors, NewSectors |-> NewSectors,
   SectorExpirations |-> SectorExpirations, Deadlines |-> Deadlines,
   Faults |-> Faults, FaultEpochs |-> FaultEpochs, Recoveries |-> Recoveries,
   PostSubmissions |-> PostSubmissions]

\* adt.Array (AMT): Get with a default for a missing key, Set, and the
\* deletion of a list of keys (deleteMany).
ArrGet(arr, k, default) == IF k \in DOMAIN arr THEN arr[k] ELSE default

ArrSet(arr, k, v) == [x \in (DOMAIN arr) \cup {k} |-> IF x = k THEN v ELSE arr[x]]

deleteMany(arr, keys) ==
  [x \in (DOMAIN arr) \ {keys[i] : i \in DOMAIN keys} |-> arr[x]]

\* The result of a State method: the state, whether it returned or an
\* assertion failed, the amount returned.
MRet(st, ret) == [st |-> st, code |-> "Ok", ret |-> ret]
MPanic(st) == [st |-> st, code |-> "Panic", ret |-> 0]

\* Rounds e down to a multiple of unit (lines 963-971): what a call of the
\* wrong rounding function would compute.
quantizeUpRoundsDown(e, unit) ==
  IF e % unit = 0 THEN e ELSE e - (e % unit)

\* Rounds up without the test for a remainder of zero.
quantizeUpAlwaysAdds(e, unit) == e - Rem(e, unit) + unit

\* Rounds e up to a multiple of unit.
quantizeUp(e, unit) ==
  IF Rem(e, unit) = 0 THEN e ELSE e - Rem(e, unit) + unit

\* Rounds e down to a multiple of unit.
quantizeDown(e, unit) ==
  IF Rem(e, unit) = 0 THEN e ELSE e - Rem(e, unit)

\* A faulty targetVest: the whole sum is due an epoch before the period
\* has elapsed.
targetVestEarly(vestingSum, elapsed, spec) ==
  IF elapsed + 1 < spec.VestPeriod
  THEN (vestingSum * elapsed) \div spec.VestPeriod
  ELSE vestingSum

\* targetVest of AddLockedFunds (lines 771-777).
targetVest(vestingSum, elapsed, spec) ==
  IF elapsed < spec.VestPeriod
  THEN (vestingSum * elapsed) \div spec.VestPeriod
  ELSE vestingSum

\* A faulty step: the whole target is added, not the part not yet vested.
AddLockedFundsStepWholeTarget(vestingFunds, vestEpoch, targetVested, vestedSoFar) ==
  ArrSet(vestingFunds, vestEpoch, ArrGet(vestingFunds, vestEpoch, 0) + targetVested)

\* One pass of the loop of AddLockedFunds (lines 779-794): the entry of
\* vestEpoch grows by what the target adds to the amount vested so far.
AddLockedFundsStep(vestingFunds, vestEpoch, targetVested, vestedSoFar) ==
  ArrSet(vestingFunds, vestEpoch,
         ArrGet(vestingFunds, vestEpoch, 0) + (targetVested - vestedSoFar))

\* The loop of AddLockedFunds (lines 767-795).
RECURSIVE AddLockedFundsLoop(_, _, _, _, _, _)
AddLockedFundsLoop(vestingFunds, e, vestedSoFar, vestBegin, vestingSum, spec) ==
  IF ~(vestedSoFar < vestingSum) THEN vestingFunds
  ELSE AddLockedFundsLoop(
         AddLockedFundsStep(
           vestingFunds, quantizeUp(e, spec.Quantization),
           targetVest(vestingSum, quantizeUp(e, spec.Quantization) - vestBegin, spec),
           vestedSoFar),
         e + spec.StepDuration,
         targetVest(vestingSum, quantizeUp(e, spec.Quantization) - vestBegin, spec),
         vestBegin, vestingSum, spec)

AddLockedFunds(st, currEpoch, vestingSum, spec) ==
  IF vestingSum < 0 THEN MPanic(st)
  ELSE MRet([st EXCEPT
               !.VestingFunds =
                  AddLockedFundsLoop(@, currEpoch + spec.InitialDelay + spec.StepDuration,
                                     0, currEpoch + spec.InitialDelay, vestingSum, spec),
               !.LockedFunds = @ + vestingSum],
            0)

\* The end of both unlock methods (lines 847-859, 891-903): the emptied
\* entries are deleted, LockedFunds is reduced and asserted non-negative.
UnlockFinish(st, vestingFunds, amountUnlocked, toDelete) ==
  IF st.LockedFunds - amountUnlocked < 0 THEN MPanic(st)
  ELSE MRet([st EXCEPT !.VestingFunds = deleteMany(vestingFunds, toDelete),
                       !.LockedFunds = @ - amountUnlocked],
            amountUnlocked)

\* A faulty iteration: the entry of currEpoch itself counts as vested.
RECURSIVE UnlockVestedLoopInclusive(_, _, _, _, _, _)
UnlockVestedLoopInclusive(st, vestingFunds, keys, currEpoch, amountUnlocked, toDelete) ==
  IF keys = <<>> \/ ~(Head(keys) <= currEpoch)
  THEN UnlockFinish(st, vestingFunds, amountUnlocked, toDelete)
  ELSE UnlockVestedLoopInclusive(st, vestingFunds, Tail(keys), currEpoch,
                                 amountUnlocked + vestingFunds[Head(keys)],
                                 Append(toDelete, Head(keys)))

\* The iteration of UnlockVestedFunds (lines 877-885) over the keys in
\* ascending order: it stops at the first key not below currEpoch.
RECURSIVE UnlockVestedLoop(_, _, _, _, _, _)
UnlockVestedLoop(st, vestingFunds, keys, currEpoch, amountUnlocked, toDelete) ==
  IF keys = <<>> \/ ~(Head(keys) < currEpoch)
  THEN UnlockFinish(st, vestingFunds, amountUnlocked, toDelete)
  ELSE UnlockVestedLoop(st, vestingFunds, Tail(keys), currEpoch,
                        amountUnlocked + vestingFunds[Head(keys)],
                        Append(toDelete, Head(keys)))

UnlockVestedFunds(st, currEpoch) ==
  UnlockVestedLoop(st, st.VestingFunds, SetToSortedSeq(DOMAIN st.VestingFunds),
                   currEpoch, 0, <<>>)

\* A faulty iteration: entries are emptied whether vested or not.
UnlockUnvestedTakeAnyEpoch(vestingFunds, k, currEpoch, unlockAmount) ==
  [vf |-> ArrSet(vestingFunds, k, vestingFunds[k] - unlockAmount),
   amount |-> unlockAmount,
   delete |-> IF vestingFunds[k] - unlockAmount = 0 THEN <<k>> ELSE <<>>]

\* What one entry gives (lines 824-836): nothing if it has vested, else
\* unlockAmount = min(target - amountUnlocked, lockedEntry); an entry left
\* at zero is listed for deletion, any other is written back.
UnlockUnvestedTake(vestingFunds, k, currEpoch, unlockAmount) ==
  IF k >= currEpoch
  THEN [vf |-> ArrSet(vestingFunds, k, vestingFunds[k] - unlockAmount),
        amount |-> unlockAmount,
        delete |-> IF vestingFunds[k] - unlockAmount = 0 THEN <<k>> ELSE <<>>]
  ELSE [vf |-> vestingFunds, amount |-> 0, delete |-> <<>>]

\* The iteration of UnlockUnvestedFunds (lines 822-841): it stops once the
\* target is reached.
RECURSIVE UnlockUnvestedLoop(_, _, _, _, _, _, _)
UnlockUnvestedNext(st, taken, keys, currEpoch, target, amountUnlocked, toDelete) ==
  UnlockUnvestedLoop(st, taken.vf, Tail(keys), currEpoch, target,
                     amountUnlocked + taken.amount, toDelete \o taken.delete)

UnlockUnvestedLoop(st, vestingFunds, keys, currEpoch, target, amountUnlocked, toDelete) ==
  IF keys = <<>> \/ ~(amountUnlocked < target)
  THEN UnlockFinish(st, vestingFunds, amountUnlocked, toDelete)
  ELSE UnlockUnvestedNext(
         st,
         UnlockUnvestedTake(vestingFunds, Head(keys), currEpoch,
                            Min(target - amountUnlocked, vestingFunds[Head(keys)])),
         keys, currEpoch, target, amountUnlocked, toDelete)

UnlockUnvestedFunds(st, currEpoch, target) ==
  UnlockUnvestedLoop(st, st.VestingFunds, SetToSortedSeq(DOMAIN st.VestingFunds),
                     currEpoch, target, 0, <<>>)

(***************************************************************************)
(* The vesting table as a state machine: any sequence of calls of          *)
(* AddLockedFunds, UnlockVestedFunds and UnlockUnvestedFunds at the        *)
(* current epoch.                                                          *)
(***************************************************************************)
VestSpec(delay, period, step, quant) ==
  [InitialDelay |-> delay, VestPeriod |-> period, StepDuration |-> step,
   Quantization |-> quant]

VestSpecInputs == {VestSpec(0, 4, 1, 2), VestSpec(1, 3, 2, 1), VestSpec(0, 2, 3, 1)}
VestingSumInputs == {-1, 0, 1, 3}
UnlockTargetInputs == {0, 1, 2, MaxLockedFunds}

marketUnchanged ==
  UNCHANGED <<EscrowTable, LockedTable, Proposals, States, DealIDsByParty,
              NextID, DataCap, last>>

\* The state a call leaves: that of a call that returned, the state before
\* for a call that panicked (the message is aborted).
MinerWrite(st) ==
  /\ PreCommitDeposits' = st.PreCommitDeposits
  /\ LockedFunds' = st.LockedFunds
  /\ VestingFunds' = st.VestingFunds
  /\ PreCommittedSectors' = st.PreCommittedSectors
  /\ Sectors' = st.Sectors
  /\ Faults' = st.Faults
  /\ FaultEpochs' = st.FaultEpochs
  /\ Recoveries' = st.Recoveries
  /\ NewSectors' = st.NewSectors
  /\ SectorExpirations' = st.SectorExpirations
  /\ Deadlines' = st.Deadlines
  /\ PostSubmissions' = st.PostSubmissions
  /\ ProvingPeriodBoundary' = st.Info.ProvingPeriodBoundary

MinerCommit(op, arg, out) ==
  /\ out.code = "Ok"
  /\ MinerWrite(out.st)
  /\ mlast' = [op |-> op, ret |-> out.ret, arg |-> arg]
  /\ UNCHANGED now
  /\ marketUnchanged

CallAddLockedFunds(vestingSum, spec) ==
  /\ LockedFunds + vestingSum <= MaxLockedFunds
  /\ MinerCommit("AddLockedFunds", vestingSum, AddLockedFunds(MSt, now, vestingSum, spec))
  /\ UNCHANGED <<Balance, CronEvents>>

CallUnlockVestedFunds ==
  /\ MinerCommit("UnlockVestedFunds", now, UnlockVestedFunds(MSt, now))
  /\ UNCHANGED <<Balance, CronEvents>>

CallUnlockUnvestedFunds(target) ==
  /\ MinerCommit("UnlockUnvestedFunds", target, UnlockUnvestedFunds(MSt, now, target))
  /\ UNCHANGED <<Balance, CronEvents>>

TickVesting ==
  /\ now < MaxVestEpoch
  /\ now' = now + 1
  /\ UNCHANGED mvars
  /\ marketUnchanged

NextVesting ==
  \/ \E v \in VestingSumInputs, spec \in VestSpecInputs : CallAddLockedFunds(v, spec)
  \/ CallUnlockVestedFunds
  \/ \E t \in UnlockTargetInputs : CallUnlockUnvestedFunds(t)
  \/ TickVesting

SpecVesting == Init /\ [][NextVesting]_<<vars, mvars>>

\* The sum of the values of an epoch-indexed table.
RECURSIVE SumValues(_)
SumValues(arr) ==
  IF DOMAIN arr = {} THEN 0
  ELSE arr[CHOOSE k \in DOMAIN arr : TRUE]
         + SumValues([x \in (DOMAIN arr) \ {CHOOSE k \in DOMAIN arr : TRUE} |-> arr[x]])

\* C14: after any sequence of AddLockedFunds, UnlockVestedFunds and
\* UnlockUnvestedFunds calls the values of VestingFunds sum to LockedFunds,
\* and LockedFunds is not negative.
C14_VestingSumsToLocked ==
  /\ SumValues(VestingFunds) = LockedFunds
  /\ LockedFunds >= 0

\* Part of the unvested funds has just been unlocked, and funds remain
\* locked in two entries or more.
C14_Witness ==
  /\ mlast.op = "UnlockUnvestedFunds"
  /\ mlast.ret > 0
  /\ LockedFunds > 0
  /\ Cardinality(DOMAIN VestingFunds) >= 2

\* C15: AddLockedFunds(now, vestingSum, spec) with vestingSum >= 0 changes
\* VestingFunds only at epochs v = (vestBegin + k x StepDuration rounded up
\* to a multiple of Quantization), k >= 1, vestBegin = now + InitialDelay;
\* the amounts it adds at epochs <= v sum to
\* floor(vestingSum x (v - vestBegin) / VestPeriod) when v - vestBegin <
\* VestPeriod and to vestingSum otherwise; it adds vestingSum in total and
\* LockedFunds grows by vestingSum.  On the empty table, now = 0, sum 1000,
\* delay 0, period 100, step 10, quantization 10 give 100 at each of 10,
\* 20, ..., 100.
RoundedUp(e, unit) ==
  CHOOSE m \in e..(e + unit) : m % unit = 0 /\ \A n \in e..(m - 1) : n % unit # 0

VestEpochs(vestBegin, spec) ==
  { RoundedUp(vestBegin + k * spec.StepDuration, spec.Quantization) :
      k \in 1..(spec.VestPeriod + spec.Quantization) }

AddedAt(before, after, v) == ArrGet(after, v, 0) - ArrGet(before, v, 0)

RECURSIVE AddedUpTo(_, _, _)
AddedUpTo(before, after, v) ==
  IF v < 0 THEN 0 ELSE AddedAt(before, after, v) + AddedUpTo(before, after, v - 1)

C15_AddLockedFundsSchedule ==
  /\ \A vestingSum \in VestingSumInputs, spec \in VestSpecInputs :
       vestingSum >= 0 =>
         LET out == AddLockedFunds(MSt, now, vestingSum, spec)
             vestBegin == now + spec.InitialDelay
             after == out.st.VestingFunds
             horizon == (DOMAIN after) \cup VestEpochs(vestBegin, spec)
         IN /\ out.code = "Ok"
            /\ \A v \in DOMAIN after :
                 (v \notin DOMAIN VestingFunds \/ after[v] # VestingFunds[v])
                   => v \in VestEpochs(vestBegin, spec)
            /\ DOMAIN VestingFunds \subseteq DOMAIN after
            /\ \A v \in VestEpochs(vestBegin, spec) :
                 AddedUpTo(VestingFunds, after, v)
                   = IF v - vestBegin < spec.VestPeriod
                     THEN (vestingSum * (v - vestBegin)) \div spec.VestPeriod
                     ELSE vestingSum
            /\ \A v \in horizon : AddedAt(VestingFunds, after, v) >= 0
            /\ SumValues(after) = SumValues(VestingFunds) + vestingSum
            /\ out.st.LockedFunds = LockedFunds + vestingSum
            /\ out.st.PreCommitDeposits = PreCommitDeposits
  /\ AddLockedFunds(MinerConstructState(0), 0, 1000, VestSpec(0, 100, 10, 10)).st
       = [MinerConstructState(0) EXCEPT
            !.VestingFunds = [v \in {10 * k : k \in 1..10} |-> 100],
            !.LockedFunds = 1000]

\* Three units have just been locked on top of funds locked before, and
\* the table holds funds at three epochs or more.
C15_Witness ==
  /\ mlast.op = "AddLockedFunds"
  /\ mlast.arg = 3
  /\ LockedFunds > 3
  /\ Cardinality({v \in DOMAIN VestingFunds : VestingFunds[v] > 0}) >= 3

\* C16: UnlockVestedFunds(e) returns the sum of the entries of VestingFunds
\* with epoch < e, deletes exactly those entries, lowers LockedFunds by the
\* amount returned and leaves the entries with epoch >= e as they are; a
\* second call at e returns 0 and changes nothing.
VestCallEpochs == 0..(MaxVestEpoch + 2)

EntriesWhere(arr, keys) == [k \in (DOMAIN arr) \cap keys |-> arr[k]]

C16_UnlockVestedExact ==
  \A e \in VestCallEpochs :
    LET out == UnlockVestedFunds(MSt, e)
        again == UnlockVestedFunds(out.st, e)
        vested == {k \in DOMAIN VestingFunds : k < e}
    IN /\ out.code = "Ok"
       /\ out.ret = SumValues(EntriesWhere(VestingFunds, vested))
       /\ out.st.VestingFunds = EntriesWhere(VestingFunds, (DOMAIN VestingFunds) \ vested)
       /\ out.st.LockedFunds = LockedFunds - out.ret
       /\ out.st.PreCommitDeposits = PreCommitDeposits
       /\ again.code = "Ok"
       /\ again.ret = 0
       /\ again.st = out.st

\* Vested funds have just been unlocked, and the entry of the current epoch
\* itself is still locked.
C16_Witness ==
  /\ mlast.op = "UnlockVestedFunds"
  /\ mlast.ret > 0
  /\ now \in DOMAIN VestingFunds
  /\ VestingFunds[now] > 0

\* C17: UnlockUnvestedFunds(e, target) with target >= 0 returns
\* min(target, sum of the entries with epoch >= e); it takes the amount from
\* those entries in ascending order of epoch: an entry is changed or deleted
\* only if every unvested entry before it has been deleted, and no entry is
\* left at zero by the taking; LockedFunds falls by the amount returned; the
\* entries with epoch < e stay as they are.
C17_UnlockUnvestedInOrder ==
  \A e \in VestCallEpochs, target \in UnlockTargetInputs :
    LET out == UnlockUnvestedFunds(MSt, e, target)
        after == out.st.VestingFunds
        unvested == {k \in DOMAIN VestingFunds : k >= e}
        touched == {k \in unvested : k \notin DOMAIN after \/ after[k] # VestingFunds[k]}
    IN /\ out.code = "Ok"
       /\ out.ret = Min(target, SumValues(EntriesWhere(VestingFunds, unvested)))
       /\ DOMAIN after \subseteq DOMAIN VestingFunds
       /\ EntriesWhere(after, (DOMAIN VestingFunds) \ unvested)
            = EntriesWhere(VestingFunds, (DOMAIN VestingFunds) \ unvested)
       /\ \A k \in touched :
            /\ \A j \in unvested : j < k => j \notin DOMAIN after
            /\ k \in DOMAIN after => (0 < after[k] /\ after[k] < VestingFunds[k])
       /\ SumValues(after) = SumValues(VestingFunds) - out.ret
       /\ out.st.LockedFunds = LockedFunds - out.ret
       /\ out.st.PreCommitDeposits = PreCommitDeposits

\* Less than the target has just been unlocked: every unvested entry is
\* gone, and funds that have vested are still in the table.
C17_Witness ==
  /\ mlast.op = "UnlockUnvestedFunds"
  /\ mlast.ret > 0
  /\ mlast.ret < mlast.arg
  /\ LockedFunds > 0
  /\ \A k \in DOMAIN VestingFunds : k < now

\* ---------------------------------------------------------------------
\* Miner State: sectors, faults, recoveries and deposits
\* (actors/builtin/miner/miner_state.go). Bitfields are sets of sector
\* numbers, AMTs and HAMTs are functions on the keys they hold.
\* ---------------------------------------------------------------------

\* A State method that returned an error: the handler aborts the message.
MErr(st) == [st |-> st, code |-> "Err", ret |-> 0]

\* The next State method, applied only when the previous one returned nil.
MThen(r, F(_)) == IF r.code = "Ok" THEN F(r.st) ELSE r

\* The limits of policy.go:45 and 51, scaled to the sector numbers of the
\* model so that they are reached.
SectorsMax == 2
NewSectorsPerPeriodMax == 1

depositPerByte == 0

SectorSize == 1

precommitDeposit(sectorSize, duration) == depositPerByte * sectorSize

PutPrecommittedSector(st, sectorNo, info) ==
  MRet([st EXCEPT !.PreCommittedSectors = ArrSet(@, sectorNo, info)], 0)

\* Map.Delete of a key that is not there is an error.
DeletePrecommittedSector(st, sectorNo) ==
  IF sectorNo \in DOMAIN st.PreCommittedSectors
  THEN MRet([st EXCEPT !.PreCommittedSectors = deleteMany(@, <<sectorNo>>)], 0)
  ELSE MErr(st)

PutSector(st, sectorNo, sector) ==
  MRet([st EXCEPT !.Sectors = ArrSet(@, sectorNo, sector)], 0)

\* Array.Delete of a key that is not there is an error; the root is only
\* stored when every deletion succeeded.
DeleteSectors(st, sectorNos) ==
  IF sectorNos \subseteq DOMAIN st.Sectors
  THEN MRet([st EXCEPT !.Sectors = deleteMany(@, SetToSortedSeq(sectorNos))], 0)
  ELSE MErr(st)

\* The merged bitfield is stored in st.Faults before its size is checked.
AddFaults(st, sectorNos, faultEpoch) ==
  IF sectorNos = {} THEN MRet(st, 0)
  ELSE IF Cardinality(st.Faults \cup sectorNos) > SectorsMax
  THEN MErr([st EXCEPT !.Faults = @ \cup sectorNos])
  ELSE MRet([st EXCEPT
               !.Faults = @ \cup sectorNos,
               !.FaultEpochs = ArrSet(@, faultEpoch, ArrGet(@, faultEpoch, {}) \cup sectorNos)],
            0)

\* A fault epoch left with no sector keeps its key.
RemoveFaultsNotFromEpochs(st, sectorNos) ==
  IF sectorNos = {} THEN MRet(st, 0)
  ELSE MRet([st EXCEPT !.Faults = @ \ sectorNos], 0)

RemoveFaults(st, sectorNos) ==
  IF sectorNos = {} THEN MRet(st, 0)
  ELSE MRet([st EXCEPT
               !.Faults = @ \ sectorNos,
               !.FaultEpochs = [e \in DOMAIN @ |-> @[e] \ sectorNos]],
            0)

\* epochs is a sequence. The first Delete that fails makes the method
\* return nil without storing the root: nothing is deleted, no error.
ClearFaultEpochs(st, epochs) ==
  IF /\ \A i \in DOMAIN epochs : epochs[i] \in DOMAIN st.FaultEpochs
     /\ \A i, j \in DOMAIN epochs : i # j => epochs[i] # epochs[j]
  THEN MRet([st EXCEPT !.FaultEpochs = deleteMany(@, epochs)], 0)
  ELSE MRet(st, 0)

AddRecoveries(st, sectorNos) ==
  IF sectorNos = {} THEN MRet(st, 0)
  ELSE IF Cardinality(st.Recoveries \cup sectorNos) > SectorsMax
  THEN MErr([st EXCEPT !.Recoveries = @ \cup sectorNos])
  ELSE MRet([st EXCEPT !.Recoveries = @ \cup sectorNos], 0)

\* Merges the sectors into Recoveries where they were to be subtracted.
RemoveRecoveriesMerges(st, sectorNos) ==
  IF sectorNos = {} THEN MRet(st, 0)
  ELSE MRet([st EXCEPT !.Recoveries = @ \cup sectorNos], 0)

RemoveRecoveries(st, sectorNos) ==
  IF sectorNos = {} THEN MRet(st, 0)
  ELSE MRet([st EXCEPT !.Recoveries = @ \ sectorNos], 0)

\* A faulty AddNewSectors: the size of the merged bitfield is not checked.
AddNewSectorsUnchecked(st, sectorNos) ==
  MRet([st EXCEPT !.NewSectors = @ \cup sectorNos], 0)

\* The merged bitfield is stored in st.NewSectors before its size is
\* checked.
AddNewSectors(st, sectorNos) ==
  IF Cardinality(st.NewSectors \cup sectorNos) > NewSectorsPerPeriodMax
  THEN MErr([st EXCEPT !.NewSectors = @ \cup sectorNos])
  ELSE MRet([st EXCEPT !.NewSectors = @ \cup sectorNos], 0)

RemoveNewSectors(st, sectorNos) ==
  MRet([st EXCEPT !.NewSectors = @ \ sectorNos], 0)

ClearNewSectors(st) == MRet([st EXCEPT !.NewSectors = {}], 0)

\* A faulty AddSectorExpirations: the bitfield is stored at the epoch after
\* the expiry.
AddSectorExpirationsNextEpoch(st, expiry, sectors) ==
  MRet([st EXCEPT !.SectorExpirations =
          ArrSet(@, expiry + 1, ArrGet(@, expiry + 1, {}) \cup sectors)], 0)

\* The size is checked before the merged bitfield is stored.
AddSectorExpirations(st, expiry, sectors) ==
  IF Cardinality(ArrGet(st.SectorExpirations, expiry, {}) \cup sectors) > SectorsMax
  THEN MErr(st)
  ELSE MRet([st EXCEPT !.SectorExpirations =
               ArrSet(@, expiry, ArrGet(@, expiry, {}) \cup sectors)], 0)

\* The bitfield is stored when the subtraction leaves it empty, and when
\* there was none at the epoch.
RemoveSectorExpirations(st, expiry, sectors) ==
  MRet([st EXCEPT !.SectorExpirations =
          ArrSet(@, expiry, ArrGet(@, expiry, {}) \ sectors)], 0)

\* expirations is a sequence. A Delete that fails is returned as the error.
ClearSectorExpirations(st, expirations) ==
  IF /\ \A i \in DOMAIN expirations : expirations[i] \in DOMAIN st.SectorExpirations
     /\ \A i, j \in DOMAIN expirations : i # j => expirations[i] # expirations[j]
  THEN MRet([st EXCEPT !.SectorExpirations = deleteMany(@, expirations)], 0)
  ELSE MErr(st)

AddPoStSubmissions(st, partitionNos) ==
  MRet([st EXCEPT !.PostSubmissions = @ \cup partitionNos], 0)

ClearPoStSubmissions(st) == MRet([st EXCEPT !.PostSubmissions = {}], 0)

\* Deadlines.AddToDeadline and Deadlines.RemoveFromAllDeadlines, on the
\* loaded Deadlines; SaveDeadlines stores them.
AddToDeadline(deadlines, deadline, newSectors) ==
  [deadlines EXCEPT ![deadline] = @ \cup newSectors]

RemoveFromAllDeadlines(deadlines, sectorNos) ==
  [d \in DOMAIN deadlines |-> deadlines[d] \ sectorNos]

SaveDeadlines(st, deadlines) == MRet([st EXCEPT !.Deadlines = deadlines], 0)

AddPreCommitDeposit(st, amount) ==
  IF st.PreCommitDeposits + amount < 0 THEN MPanic(st)
  ELSE MRet([st EXCEPT !.PreCommitDeposits = @ + amount], 0)

\* The available balance ignoring the funds locked for vesting.
GetAvailableBalanceIgnoringLocked(st, actorBalance) ==
  IF actorBalance - st.PreCommitDeposits < 0 THEN MPanic(st)
  ELSE MRet(st, actorBalance - st.PreCommitDeposits)

GetAvailableBalance(st, actorBalance) ==
  IF actorBalance - st.LockedFunds - st.PreCommitDeposits < 0 THEN MPanic(st)
  ELSE MRet(st, actorBalance - st.LockedFunds - st.PreCommitDeposits)

AssertBalanceInvariants(st, balance) ==
  IF /\ st.PreCommitDeposits >= 0
     /\ st.LockedFunds >= 0
     /\ balance >= st.PreCommitDeposits + st.LockedFunds
  THEN MRet(st, 0)
  ELSE MPanic(st)

\* ---------------------------------------------------------------------
\* Miner messages (spec 4.3.3, 4.3.4), over the State methods above. The
\* caller checks, the proofs and the deadline assignment are left out:
\* every message here is one the caller was allowed to send, with a valid
\* proof where one is needed.
\* ---------------------------------------------------------------------

MaxBalance == 2
MaxSector == 2
MaxMinerEpoch == 3
FaultMaxPeriods == 1
MaxSealDuration == 1

\* Faults older than this are terminated (policy.go:81).
FaultMaxAge == WPoStProvingPeriod * FaultMaxPeriods - 1

\* The vesting of pledge (policy.go:131-136), scaled.
PledgeVestingSpec == VestSpec(1, 2, 1, 1)

SectorNumbers == 1..MaxSector

\* The expirations a pre-commit of sector n is tried with: the first sector
\* expires within the epochs of the model, the second after them; of two
\* successive epochs one is the end of a proving period.
ExpirationsOf(n) ==
  IF n = 1 THEN {MaxMinerEpoch - 2, MaxMinerEpoch - 1}
  ELSE {MaxMinerEpoch + 1, MaxMinerEpoch + 2}

ExpirationInputs == UNION {ExpirationsOf(n) : n \in SectorNumbers}
FundInputs == 1..MaxBalance

\* A message aborted with an exit code; the state is rolled back.
MAbort(st, code) == [st |-> st, code |-> code, ret |-> 0]

\* The sectors leave the bitfields of their expirations, one by one in
\* ascending order; st0 is the state the sector infos are read from.
RECURSIVE removeSectorExpirationsOf(_, _, _)
removeSectorExpirationsOf(r, st0, sectorSeq) ==
  IF sectorSeq = <<>> \/ r.code # "Ok" THEN r
  ELSE removeSectorExpirationsOf(
         RemoveSectorExpirations(r.st, st0.Sectors[Head(sectorSeq)].Expiration,
                                 {Head(sectorSeq)}),
         st0, Tail(sectorSeq))

\* The first half of the removal: the expirations, the new sectors, the
\* deadlines.
removeFromProvingSets(st, sectorNos) ==
  MThen(MThen(removeSectorExpirationsOf(MRet(st, 0), st, SetToSortedSeq(sectorNos)),
              LAMBDA s1 : RemoveNewSectors(s1, sectorNos)),
        LAMBDA s2 : SaveDeadlines(s2, RemoveFromAllDeadlines(s2.Deadlines, sectorNos)))

\* A terminated or expired sector leaves SectorExpirations, NewSectors, the
\* Deadlines, Faults, FaultEpochs, Recoveries and Sectors.
removeTerminatedSectors(st, sectorNos) ==
  IF ~(sectorNos \subseteq DOMAIN st.Sectors) THEN MErr(st)
  ELSE MThen(MThen(MThen(removeFromProvingSets(st, sectorNos),
                         LAMBDA s1 : RemoveFaults(s1, sectorNos)),
                   LAMBDA s2 : RemoveRecoveries(s2, sectorNos)),
             LAMBDA s3 : DeleteSectors(s3, sectorNos))

\* The epoch is the last of a proving period of the miner.
IsPeriodEnd(st, epoch) == PeriodEnd(DeadlineInfo(st, epoch)) = epoch

\* A faulty pre-commit: the expiration need not be the end of a period.
PreCommitSectorAnyExpiration(st, balance, currEpoch, sectorNo, expiration) ==
  IF sectorNo \in (DOMAIN st.PreCommittedSectors) \cup (DOMAIN st.Sectors)
  THEN MAbort(st, "ErrIllegalArgument")
  ELSE IF expiration <= currEpoch THEN MAbort(st, "ErrIllegalArgument")
  ELSE IF GetAvailableBalance(st, balance).code # "Ok" THEN MPanic(st)
  ELSE IF GetAvailableBalance(st, balance).ret < precommitDeposit(SectorSize, expiration - currEpoch)
  THEN MAbort(st, "ErrInsufficientFunds")
  ELSE MThen(AddPreCommitDeposit(st, precommitDeposit(SectorSize, expiration - currEpoch)),
             LAMBDA s1 : PutPrecommittedSector(s1, sectorNo,
                [Expiration |-> expiration, PreCommitEpoch |-> currEpoch,
                 PreCommitDeposit |-> precommitDeposit(SectorSize, expiration - currEpoch)]))

PreCommitSector(st, balance, currEpoch, sectorNo, expiration) ==
  IF sectorNo \in (DOMAIN st.PreCommittedSectors) \cup (DOMAIN st.Sectors)
  THEN MAbort(st, "ErrIllegalArgument")
  ELSE IF expiration <= currEpoch THEN MAbort(st, "ErrIllegalArgument")
  ELSE IF ~IsPeriodEnd(st, expiration) THEN MAbort(st, "ErrIllegalArgument")
  ELSE IF GetAvailableBalance(st, balance).code # "Ok" THEN MPanic(st)
  ELSE IF GetAvailableBalance(st, balance).ret < precommitDeposit(SectorSize, expiration - currEpoch)
  THEN MAbort(st, "ErrInsufficientFunds")
  ELSE MThen(AddPreCommitDeposit(st, precommitDeposit(SectorSize, expiration - currEpoch)),
             LAMBDA s1 : PutPrecommittedSector(s1, sectorNo,
                [Expiration |-> expiration, PreCommitEpoch |-> currEpoch,
                 PreCommitDeposit |-> precommitDeposit(SectorSize, expiration - currEpoch)]))

\* The cron event a pre-commit that succeeded enrolls.
PreCommitSectorEnrolls(currEpoch, sectorNo) ==
  {CronEvent(currEpoch + MaxSealDuration + 1, "PreCommitExpiry", {sectorNo})}

\* The second half of a prove-commit: the sector is stored, is new in this
\* period and is due to expire at its expiration.
activateSector(st, sectorNo, expiration) ==
  MThen(MThen(PutSector(st, sectorNo, [Expiration |-> expiration]),
              LAMBDA s1 : AddNewSectors(s1, {sectorNo})),
        LAMBDA s2 : AddSectorExpirations(s2, expiration, {sectorNo}))

ProveCommitSector(st, currEpoch, sectorNo) ==
  IF sectorNo \notin DOMAIN st.PreCommittedSectors THEN MAbort(st, "ErrNotFound")
  ELSE IF currEpoch > st.PreCommittedSectors[sectorNo].PreCommitEpoch + MaxSealDuration
  THEN MAbort(st, "ErrIllegalArgument")
  ELSE MThen(MThen(DeletePrecommittedSector(st, sectorNo),
                   LAMBDA s1 : AddPreCommitDeposit(s1,
                      0 - st.PreCommittedSectors[sectorNo].PreCommitDeposit)),
             LAMBDA s2 : activateSector(s2, sectorNo,
                           st.PreCommittedSectors[sectorNo].Expiration))

\* The sector moves from the bitfield of its expiration to that of the new
\* one, and its info takes the new expiration.
ExtendSectorExpiration(st, sectorNo, newExpiration) ==
  IF sectorNo \notin DOMAIN st.Sectors THEN MAbort(st, "ErrNotFound")
  ELSE IF newExpiration <= st.Sectors[sectorNo].Expiration
  THEN MAbort(st, "ErrIllegalArgument")
  ELSE MThen(MThen(RemoveSectorExpirations(st, st.Sectors[sectorNo].Expiration, {sectorNo}),
                   LAMBDA s1 : AddSectorExpirations(s1, newExpiration, {sectorNo})),
             LAMBDA s2 : PutSector(s2, sectorNo,
                           [st.Sectors[sectorNo] EXCEPT !.Expiration = newExpiration]))

DeclareFaults(st, currEpoch, sectorNos) ==
  IF ~(sectorNos \subseteq DOMAIN st.Sectors) THEN MAbort(st, "ErrNotFound")
  ELSE AddFaults(st, sectorNos, currEpoch)

DeclareFaultsRecovered(st, sectorNos) ==
  IF ~(sectorNos \subseteq st.Faults) THEN MAbort(st, "ErrIllegalArgument")
  ELSE AddRecoveries(st, sectorNos)

\* The sectors due at the deadlines of a set.
DueAt(st, deadlines) == UNION {st.Deadlines[d] : d \in deadlines}

\* partitions: the deadlines the proof covers, each one partition; the
\* deadline must be the open one. The submission is recorded and the
\* declared recoveries among the proven sectors are processed: they are
\* faults no longer.
SubmitWindowedPoSt(st, currEpoch, partitions) ==
  IF ~(partitions \subseteq {DeadlineInfo(st, currEpoch).Index})
  THEN MAbort(st, "ErrIllegalArgument")
  ELSE MThen(MThen(AddPoStSubmissions(st, partitions),
                   LAMBDA s1 : RemoveFaults(s1, st.Recoveries \cap DueAt(st, partitions))),
             LAMBDA s2 : RemoveRecoveries(s2, st.Recoveries \cap DueAt(st, partitions)))

TerminateSectors(st, sectorNos) ==
  IF ~(sectorNos \subseteq DOMAIN st.Sectors) THEN MAbort(st, "ErrNotFound")
  ELSE removeTerminatedSectors(st, sectorNos)

\* The pre-commits of an expiry event that are still there are dropped and
\* their deposits burnt; ret is the amount burnt.
RECURSIVE checkPrecommitExpiry(_, _)
checkPrecommitExpiry(r, sectorSeq) ==
  IF sectorSeq = <<>> \/ r.code # "Ok" THEN r
  ELSE IF Head(sectorSeq) \notin DOMAIN r.st.PreCommittedSectors
  THEN checkPrecommitExpiry(r, Tail(sectorSeq))
  ELSE checkPrecommitExpiry(
         MThen(MThen(DeletePrecommittedSector(r.st, Head(sectorSeq)),
                     LAMBDA s1 : AddPreCommitDeposit(s1,
                        0 - r.st.PreCommittedSectors[Head(sectorSeq)].PreCommitDeposit)),
               LAMBDA s2 : MRet(s2, r.ret
                        + r.st.PreCommittedSectors[Head(sectorSeq)].PreCommitDeposit)),
         Tail(sectorSeq))

\* A detection that does not look at the submissions: the sectors due at any
\* deadline.
detectFaultsAnyDeadline(st) == DueAt(st, DeadlineIndexes) \ st.Faults

\* Step 2 of the cron: the sectors due at a deadline that has no submission
\* and that are not faults already.
detectFaultsThisPeriod(st) ==
  DueAt(st, DeadlineIndexes \ st.PostSubmissions) \ st.Faults

\* The fault epochs older than FaultMaxAge, and the sectors they hold.
expiredFaultEpochs(st, currEpoch) ==
  {e \in DOMAIN st.FaultEpochs : e + FaultMaxAge < currEpoch}

expiredFaults(st, currEpoch) ==
  UNION {st.FaultEpochs[e] : e \in expiredFaultEpochs(st, currEpoch)}

\* The expirations that fall in the period, and the sectors they hold.
expiredSectorEpochs(st, periodStart) ==
  {e \in DOMAIN st.SectorExpirations :
     periodStart <= e /\ e < periodStart + WPoStProvingPeriod}

expiredSectors(st, periodStart) ==
  UNION {st.SectorExpirations[e] : e \in expiredSectorEpochs(st, periodStart)}

\* Step 3 of the cron: the sectors of the old fault epochs are terminated.
handleExpiredFaults(st, currEpoch) ==
  MThen(removeTerminatedSectors(st, expiredFaults(st, currEpoch)),
        LAMBDA s1 : ClearFaultEpochs(s1, SetToSortedSeq(expiredFaultEpochs(st, currEpoch))))

\* Step 4 of the cron: the sectors that reached their expiration.
handleExpiredSectors(st, periodStart) ==
  MThen(removeTerminatedSectors(st, expiredSectors(st, periodStart)),
        LAMBDA s1 : ClearSectorExpirations(s1,
                      SetToSortedSeq(expiredSectorEpochs(st, periodStart))))

\* Steps 3 and 4 of the cron.
handleProvingPeriodExpiry(st, currEpoch, periodStart) ==
  MThen(handleExpiredFaults(st, currEpoch),
        LAMBDA s1 : handleExpiredSectors(s1, periodStart))

\* Step 5 of the cron: every new sector goes to the deadline the
\* assignment names, and NewSectors is cleared.
RECURSIVE AssignNewSectors(_, _, _)
AssignNewSectors(deadlines, newSectors, assignment) ==
  IF newSectors = <<>> THEN deadlines
  ELSE AssignNewSectors(
         AddToDeadline(deadlines, assignment[Head(newSectors)], {Head(newSectors)}),
         Tail(newSectors), assignment)

\* Steps 5 and 6 of the cron.
handleProvingPeriodNewSectors(st, assignment) ==
  MThen(MThen(SaveDeadlines(st, AssignNewSectors(st.Deadlines,
                                  SetToSortedSeq(st.NewSectors), assignment)),
              LAMBDA s1 : ClearNewSectors(s1)),
        LAMBDA s2 : ClearPoStSubmissions(s2))

\* Steps 1 and 2 of the cron: the vested funds are unlocked, the undeclared
\* faults are faults of the period's start.
handleProvingPeriodFaults(st, currEpoch) ==
  MThen(UnlockVestedFunds(st, currEpoch),
        LAMBDA s1 : AddFaults(s1, detectFaultsThisPeriod(s1),
                              DeadlineInfo(st, currEpoch).PeriodStart))

\* The cron at the end of the proving period that holds currEpoch.
\* assignment: the deadline the hash gives each sector number.
handleProvingPeriod(st, currEpoch, assignment) ==
  MThen(MThen(handleProvingPeriodFaults(st, currEpoch),
              LAMBDA s2 : handleProvingPeriodExpiry(s2, currEpoch,
                            DeadlineInfo(st, currEpoch).PeriodStart)),
        LAMBDA s3 : handleProvingPeriodNewSectors(s3, assignment))

\* The cron enrolled for the epoch after the handled one, the first epoch of
\* the next period instead of its last.
handleProvingPeriodEnrollsNextEpoch(currEpoch) ==
  {CronEvent(currEpoch + 1, "ProvingPeriod", {})}

\* The event the handler of a ProvingPeriod event enrolls.
handleProvingPeriodEnrolls(currEpoch) ==
  {CronEvent(currEpoch + WPoStProvingPeriod, "ProvingPeriod", {})}

\* The amount paid to the owner is the return value.
MinerWithdrawBalance(st, balance, amountRequested) ==
  IF amountRequested < 0 THEN MAbort(st, "ErrIllegalArgument")
  ELSE IF GetAvailableBalance(st, balance).code # "Ok" THEN MPanic(st)
  ELSE IF amountRequested > GetAvailableBalance(st, balance).ret
  THEN MAbort(st, "ErrInsufficientFunds")
  ELSE MThen(AssertBalanceInvariants(st, balance - amountRequested),
             LAMBDA s1 : MRet(s1, amountRequested))

\* Pledge is locked out of the balance the actor holds that is not yet
\* locked or deposited.
AddLockedFund(st, balance, currEpoch, amountToLock) ==
  IF GetAvailableBalance(st, balance).code # "Ok" THEN MPanic(st)
  ELSE IF amountToLock > GetAvailableBalance(st, balance).ret
  THEN MAbort(st, "ErrInsufficientFunds")
  ELSE AddLockedFunds(st, currEpoch, amountToLock, PledgeVestingSpec)

\* A message's effect on the actor: the State it leaves, the funds it
\* sends out and the cron events it enrolls. No outcome is recorded.
MinerMsg(out, sent, enrolls) ==
  /\ MinerCommit(NoCall.op, NoCall.arg, [out EXCEPT !.ret = NoCall.ret])
  /\ Balance' = Balance - sent
  /\ CronEvents' = CronEvents \cup enrolls

ReceiveFunds(value) ==
  /\ Balance + value <= MaxBalance
  /\ Balance' = Balance + value
  /\ mlast' = NoCall
  /\ UNCHANGED <<PreCommitDeposits, LockedFunds, VestingFunds, PreCommittedSectors,
                 Sectors, Faults, FaultEpochs, Recoveries, NewSectors,
                 SectorExpirations, Deadlines, PostSubmissions,
                 ProvingPeriodBoundary, CronEvents, now>>
  /\ marketUnchanged

\* OnDeferredCronEvent: the dispatch by the type of the payload. ret is
\* the amount the handler burns.
OnDeferredCronEvent(st, currEpoch, event, assignment) ==
  IF event.EventType = "ProvingPeriod"
  THEN handleProvingPeriod(st, currEpoch, assignment)
  ELSE checkPrecommitExpiry(MRet(st, 0), SetToSortedSeq(event.Sectors))

OnDeferredCronEventEnrolls(currEpoch, event) ==
  IF event.EventType = "ProvingPeriod" THEN handleProvingPeriodEnrolls(currEpoch)
  ELSE {}

\* The events the power actor's cron sends at the end of an epoch, in the
\* order it sends them: the pre-commit expiries by sector number, then the
\* proving period.
CronQueue(events, currEpoch) ==
  SelectSeq([n \in 1..MaxSector |-> CronEvent(currEpoch, "PreCommitExpiry", {n})]
              \o <<CronEvent(currEpoch, "ProvingPeriod", {})>>,
            LAMBDA ev : ev \in events)

\* The actor after one event: a handler that fails leaves the state and
\* enrolls nothing; the event is spent either way.
CronApply(acc, event, out, enrolls) ==
  IF out.code = "Ok"
  THEN [st |-> out.st, balance |-> acc.balance - out.ret,
        events |-> (acc.events \ {event}) \cup enrolls]
  ELSE [acc EXCEPT !.events = @ \ {event}]

RECURSIVE CronRun(_, _, _, _)
CronRun(acc, queue, currEpoch, assignment) ==
  IF queue = <<>> THEN acc
  ELSE CronRun(CronApply(acc, Head(queue),
                         OnDeferredCronEvent(acc.st, currEpoch, Head(queue), assignment),
                         OnDeferredCronEventEnrolls(currEpoch, Head(queue))),
               Tail(queue), currEpoch, assignment)

\* The end of an epoch as the miner sees it.
EpochEndOutcome(assignment) ==
  CronRun([st |-> MSt, balance |-> Balance, events |-> CronEvents],
          CronQueue(CronEvents, now), now, assignment)

\* The end of an epoch: the cron events due are handled, the next epoch
\* begins.
EpochEnd(assignment) ==
  /\ now < MaxMinerEpoch
  /\ now' = now + 1
  /\ MinerWrite(EpochEndOutcome(assignment).st)
  /\ Balance' = EpochEndOutcome(assignment).balance
  /\ CronEvents' = EpochEndOutcome(assignment).events
  /\ mlast' = NoCall
  /\ marketUnchanged

\* The sector lifecycle; the actor holds no funds, and none are needed: the
\* deposit of a pre-commit is 0.
NextMiner ==
  \/ \E n \in SectorNumbers : \E e \in ExpirationsOf(n) :
       MinerMsg(PreCommitSector(MSt, Balance, now, n, e), 0,
                PreCommitSectorEnrolls(now, n))
  \/ \E n \in SectorNumbers : MinerMsg(ProveCommitSector(MSt, now, n), 0, {})
  \/ \E n \in SectorNumbers : \E e \in ExpirationsOf(n) :
       MinerMsg(ExtendSectorExpiration(MSt, n, e), 0, {})
  \/ \E s \in SUBSET SectorNumbers : MinerMsg(DeclareFaults(MSt, now, s), 0, {})
  \/ \E s \in SUBSET SectorNumbers : MinerMsg(DeclareFaultsRecovered(MSt, s), 0, {})
  \/ \E ps \in SUBSET DeadlineIndexes : MinerMsg(SubmitWindowedPoSt(MSt, now, ps), 0, {})
  \/ \E s \in SUBSET SectorNumbers : MinerMsg(TerminateSectors(MSt, s), 0, {})
  \/ \E assignment \in [NewSectors -> DeadlineIndexes] : EpochEnd(assignment)

SpecMiner == InitMiner /\ [][NextMiner]_<<vars, mvars>>

\* The funds of the miner, with the lifecycle of one sector.
NextMinerFunds ==
  \/ \E v \in FundInputs : ReceiveFunds(v)
  \/ \E e \in ExpirationsOf(1) :
       MinerMsg(PreCommitSector(MSt, Balance, now, 1, e), 0,
                PreCommitSectorEnrolls(now, 1))
  \/ MinerMsg(ProveCommitSector(MSt, now, 1), 0, {})
  \/ \E a \in FundInputs :
       MinerMsg(MinerWithdrawBalance(MSt, Balance, a),
                MinerWithdrawBalance(MSt, Balance, a).ret, {})
  \/ \E a \in FundInputs : MinerMsg(AddLockedFund(MSt, Balance, now, a), 0, {})
  \/ \E assignment \in [NewSectors -> DeadlineIndexes] : EpochEnd(assignment)

SpecMinerFunds == InitMiner /\ [][NextMinerFunds]_<<vars, mvars>>

\* ---------------------------------------------------------------------
\* Claims on the miner's balance, faults and recoveries
\* ---------------------------------------------------------------------

WithdrawInputs == 0..(MaxBalance + 1)

\* The balance left to the miner once the locked funds and the deposits
\* are set aside.
AvailableNow == Balance - LockedFunds - PreCommitDeposits

ProvingPeriodCronDue == CronEvent(now, "ProvingPeriod", {}) \in CronEvents

\* Recoveries within Faults within the keys of Sectors, in a State.
FaultsNested(st) ==
  /\ st.Recoveries \subseteq st.Faults
  /\ st.Faults \subseteq DOMAIN st.Sectors

FaultEpochInputs == 0..MaxVestEpoch

\* The union of the bitfields stored in a fault-epoch table.
UnionOfFaultEpochs(arr) == UNION {arr[e] : e \in DOMAIN arr}

\* C20: in every reachable miner state Faults is the union of the
\* bitfields in FaultEpochs. AddFaults(s, e) adds s to Faults and to
\* FaultEpochs[e] and changes no other entry; RemoveFaults(s) takes s out
\* of Faults and out of every entry, keeping the keys; the cron, expiring
\* a fault epoch, deletes its entry and takes its sectors out of Faults.
C20_FaultsAreUnionOfFaultEpochs ==
  /\ Faults = UnionOfFaultEpochs(FaultEpochs)
  /\ \A s \in SUBSET SectorNumbers, e \in FaultEpochInputs :
       LET r == AddFaults(MSt, s, e)
       IN /\ r.code = "Ok"
          /\ r.st.Faults = Faults \cup s
          /\ r.st.Faults = UnionOfFaultEpochs(r.st.FaultEpochs)
          /\ s # {} =>
               /\ DOMAIN r.st.FaultEpochs = (DOMAIN FaultEpochs) \cup {e}
               /\ r.st.FaultEpochs[e] = ArrGet(FaultEpochs, e, {}) \cup s
          /\ \A k \in (DOMAIN FaultEpochs) \ {e} : r.st.FaultEpochs[k] = FaultEpochs[k]
  /\ \A s \in SUBSET SectorNumbers :
       LET r == RemoveFaults(MSt, s)
       IN /\ r.code = "Ok"
          /\ r.st.Faults = Faults \ s
          /\ r.st.Faults = UnionOfFaultEpochs(r.st.FaultEpochs)
          /\ DOMAIN r.st.FaultEpochs = DOMAIN FaultEpochs
          /\ \A k \in DOMAIN FaultEpochs : r.st.FaultEpochs[k] = FaultEpochs[k] \ s
  /\ \A assignment \in [NewSectors -> DeadlineIndexes] :
       LET r == handleProvingPeriod(MSt, now, assignment)
       IN /\ r.code = "Ok"
          /\ r.st.Faults = UnionOfFaultEpochs(r.st.FaultEpochs)
          /\ (DOMAIN r.st.FaultEpochs) \cap expiredFaultEpochs(MSt, now) = {}
          /\ r.st.Faults \cap expiredFaults(MSt, now) = {}

\* The cron is due with faults recorded under two epochs, one of them
\* expired: its entry and its sectors go, the later fault stays.
C20_Witness ==
  /\ ProvingPeriodCronDue
  /\ expiredFaults(MSt, now) # {}
  /\ Faults \ expiredFaults(MSt, now) # {}
  /\ \E e \in DOMAIN FaultEpochs :
       /\ e \notin expiredFaultEpochs(MSt, now)
       /\ FaultEpochs[e] # {}
  /\ \A assignment \in [NewSectors -> DeadlineIndexes] :
       /\ handleProvingPeriod(MSt, now, assignment).st.Faults
            = Faults \ expiredFaults(MSt, now)
       /\ DOMAIN handleProvingPeriod(MSt, now, assignment).st.FaultEpochs
            = (DOMAIN FaultEpochs) \ expiredFaultEpochs(MSt, now)
  /\ RemoveFaults(MSt, Faults).st.Faults = {}

\* ---------------------------------------------------------------------
\* Claims on epoch arithmetic
\* ---------------------------------------------------------------------

MaxQuantEpoch == 12
MaxQuantUnit == 5

QuantizeEpochs == (0 - MaxQuantEpoch)..MaxQuantEpoch
QuantizeUnits == 1..MaxQuantUnit

\* C24: quantizeUp is idempotent: for every epoch e, negative ones too, and
\* every unit u > 0, quantizeUp(quantizeUp(e, u), u) = quantizeUp(e, u);
\* the result is a multiple of u, and for e >= 0 the least one not below e.
\* So it is for the epochs of the vesting table a call has written.
C24_QuantizeUpIdempotent ==
  /\ \A e \in QuantizeEpochs \cup {now} \cup (DOMAIN VestingFunds), u \in QuantizeUnits :
       /\ quantizeUp(quantizeUp(e, u), u) = quantizeUp(e, u)
       /\ Rem(quantizeUp(e, u), u) = 0
       /\ e >= 0 => (e <= quantizeUp(e, u) /\ quantizeUp(e, u) < e + u)

\* A vesting entry stands at an epoch quantizeUp reached by rounding up,
\* which a second rounding leaves in place.
C24_Witness ==
  /\ mlast.op = "AddLockedFunds"
  /\ \E k \in DOMAIN VestingFunds, u \in QuantizeUnits :
       /\ u > 1
       /\ k = quantizeUp(k - 1, u)
       /\ quantizeUp(k, u) = k

\* ---------------------------------------------------------------------
\* Claims on deal ids and on the miner-driven market messages
\* ---------------------------------------------------------------------

\* The outcome of every message the market actor can receive in this state.
MarketOutcomes ==
  {AddBalanceOutcome(ca[1], ca[2], v) : ca \in EscrowCallInputs, v \in ValueInputs}
    \cup {WithdrawBalanceOutcome(ca[1], ca[2], v) :
            ca \in EscrowCallInputs, v \in AmountInputs}
    \cup {PublishStorageDealsOutcome(cd[1], cd[2]) : cd \in PublishInputs}
    \cup {VerifyDealsOnSectorProveCommitOutcome(ci[1], ci[2], e) :
            ci \in MinerCallInputs, e \in SectorExpiryInputs}
    \cup {OnMinerSectorsTerminateOutcome(ci[1], ci[2]) : ci \in MinerCallInputs}
    \cup {HandleExpiredDealsOutcome(ci[1], ci[2]) : ci \in SignableCallInputs}
    \cup {HandleInitTimeoutDealsOutcome(ci[1], ci[2], b) :
            ci \in SignableCallInputs, b \in BOOLEAN}

\* The proposal as PublishStorageDeals stores it: both addresses normalised.
StoredProposal(deals, i) ==
  [deals[i].Proposal EXCEPT
     !.Provider = ResolveAddress(deals[1].Proposal.Provider).addr,
     !.Client = ResolveAddress(deals[i].Proposal.Client).addr]

\* C28: deal ids are fresh and ordered.  Every key of Proposals is below
\* NextID.  No message lowers NextID, and only PublishStorageDeals raises
\* it.  No message puts a proposal under an id below NextID that Proposals
\* lacks (an id whose deal was deleted stays unused), nor changes the
\* proposal of an id.  A successful PublishStorageDeals of n deals returns
\* NextID, ..., NextID + n - 1 in the order of the batch, stores the i-th
\* proposal under the i-th id and leaves NextID raised by n.
C28_DealIdsFreshAndOrdered ==
  /\ \A id \in DOMAIN Proposals : id < NextID
  /\ \A out \in MarketOutcomes :
       /\ Committed(out).NextID >= NextID
       /\ \A id \in DOMAIN Committed(out).Proposals :
            /\ id < Committed(out).NextID
            /\ IF id \in DOMAIN Proposals
               THEN Committed(out).Proposals[id] = Proposals[id]
               ELSE id >= NextID
  /\ \A cd \in PublishInputs :
       LET out == PublishStorageDealsOutcome(cd[1], cd[2])
           n == Len(cd[2])
       IN IF out.code = "Ok"
          THEN /\ out.ret.IDs = [i \in 1..n |-> NextID + i - 1]
               /\ out.st.NextID = NextID + n
               /\ \A i \in 1..n :
                    /\ NextID + i - 1 \in DOMAIN out.st.Proposals
                    /\ out.st.Proposals[NextID + i - 1] = StoredProposal(cd[2], i)
          ELSE Committed(out).NextID = NextID
  /\ \A out \in MarketOutcomes \ {PublishStorageDealsOutcome(cd[1], cd[2]) :
                                    cd \in PublishInputs} :
       Committed(out).NextID = NextID

\* The first deal was published and has been deleted, and a batch of two
\* is published now: its ids start at NextID, not at the free id 0.
C28_Witness ==
  /\ NextID = 1
  /\ 0 \notin DOMAIN Proposals
  /\ \E cd \in PublishInputs :
       /\ Len(cd[2]) = 2
       /\ PublishStorageDealsOutcome(cd[1], cd[2]).code = "Ok"
       /\ PublishStorageDealsOutcome(cd[1], cd[2]).ret.IDs = <<1, 2>>

\* The deal ids a list names.
Listed(ids) == {ids[i] : i \in DOMAIN ids}

NotTimedOut(d) ==
  /\ d \in DOMAIN Proposals
  /\ GetDealState(St, d).SectorStartEpoch = epochUndefined
  /\ now <= Proposals[d].StartEpoch

\* A deal that has been activated.
Activated(d) ==
  /\ d \in DOMAIN Proposals
  /\ GetDealState(St, d).SectorStartEpoch # epochUndefined

\* The position of the first listed deal that has not timed out.
FirstNotTimedOut(ids) ==
  CHOOSE i \in DOMAIN ids :
    /\ NotTimedOut(ids[i])
    /\ \A j \in 1..(i - 1) : ~NotTimedOut(ids[j])

\* The ids listed before position i are deals, each listed once.
DealsListedOnceBefore(ids, i) ==
  /\ \A j \in 1..(i - 1) : ids[j] \in DOMAIN Proposals
  /\ \A j, k \in 1..(i - 1) : j # k => ids[j] # ids[k]

\* The claim as stated, for a caller of a signable type: a list with a deal
\* that has not timed out is refused with ErrIllegalArgument.
C30_AbortsWithIllegalArgument ==
  \A ids \in IdListInputs, assertPanics \in BOOLEAN :
    (\E i \in DOMAIN ids : NotTimedOut(ids[i])) =>
       HandleInitTimeoutDealsOutcome("c1", ids, assertPanics).code
         = "ErrIllegalArgument"

\* C30 (amended): HandleInitTimeoutDeals never removes a deal that has not
\* timed out.  If a listed never-activated deal has now <= StartEpoch the
\* message fails, nothing is sent and the state is as before; the code is
\* ErrIllegalArgument when the caller is of a signable type and the ids
\* listed before the first such deal are deals, each listed once (a check
\* that fails earlier gives its own code).  When the message succeeds, every
\* deal it removed was listed, never activated and past its StartEpoch, and
\* every listed activated deal keeps its proposal, its state and its place
\* in DealIDsByParty.
C30_InitTimeoutOnlyTimedOut ==
  \A ci \in SignableCallInputs, assertPanics \in BOOLEAN :
    LET out == HandleInitTimeoutDealsOutcome(ci[1], ci[2], assertPanics)
        ids == ci[2]
    IN /\ (\E i \in DOMAIN ids : NotTimedOut(ids[i])) =>
            /\ out.code # "Ok"
            /\ out.sends = <<>>
            /\ Committed(out) = St
            /\ CommittedCap(out) = DataCap
            /\ (/\ GetActorCodeCID(ci[1]) \in CallerTypesSignable
                /\ DealsListedOnceBefore(ids, FirstNotTimedOut(ids)))
                 => out.code = "ErrIllegalArgument"
       /\ out.code = "Ok" =>
            /\ \A d \in (DOMAIN Proposals) \ (DOMAIN out.st.Proposals) :
                 d \in Listed(ids) /\ TimedOut(d)
            /\ \A d \in Listed(ids) :
                 Activated(d) =>
                   /\ d \in DOMAIN out.st.Proposals
                   /\ out.st.Proposals[d] = Proposals[d]
                   /\ GetDealState(out.st, d) = GetDealState(St, d)
                   /\ \A a \in DOMAIN DealIDsByParty :
                        d \in DealsOfParty(St, a) => d \in DealsOfParty(out.st, a)

\* One deal is activated and another was never activated and is not past
\* its StartEpoch: the list of both is refused with ErrIllegalArgument, the
\* list of the activated deal alone is accepted and changes nothing.
C30_Witness ==
  \E d, e \in DOMAIN Proposals :
    /\ Activated(d)
    /\ NotTimedOut(e)
    /\ HandleInitTimeoutDealsOutcome("c1", <<d, e>>, FALSE).code = "ErrIllegalArgument"
    /\ HandleInitTimeoutDealsOutcome("c1", <<d>>, FALSE).code = "Ok"
    /\ HandleInitTimeoutDealsOutcome("c1", <<d>>, FALSE).st = St

\* ---------------------------------------------------------------------
\* Claims on the sector lifecycle and the proving-period cron
\* ---------------------------------------------------------------------

\* The union of the bitfields of an expiration table.
UnionOfSectorExpirations(arr) == UNION {arr[e] : e \in DOMAIN arr}

\* The sectors of a State are those of its expiration table, each one under
\* the expiration of its info and under no other.
SectorsIndexed(st) ==
  /\ DOMAIN st.Sectors = UnionOfSectorExpirations(st.SectorExpirations)
  /\ \A e \in DOMAIN st.SectorExpirations :
       \A n \in st.SectorExpirations[e] :
         n \in DOMAIN st.Sectors /\ st.Sectors[n].Expiration = e

\* C21: in every reachable miner state Keys(Sectors) is the union of the
\* bitfields of SectorExpirations, and each sector number is only in the
\* bitfield of its own Expiration; so it is in the state ProveCommitSector,
\* ExtendSectorExpiration, TerminateSectors and the cron leave.  A proven
\* sector is put under the expiration of its pre-commit, an extended one is
\* moved to the new expiration, a terminated or expired one is in no
\* bitfield.
C21_SectorsAreUnionOfExpirations ==
  /\ SectorsIndexed(MSt)
  /\ \A n \in SectorNumbers :
       LET r == ProveCommitSector(MSt, now, n)
       IN r.code = "Ok" =>
            /\ SectorsIndexed(r.st)
            /\ DOMAIN r.st.Sectors = (DOMAIN Sectors) \cup {n}
            /\ n \in r.st.SectorExpirations[PreCommittedSectors[n].Expiration]
  /\ \A n \in SectorNumbers, e \in ExpirationInputs :
       LET r == ExtendSectorExpiration(MSt, n, e)
       IN r.code = "Ok" =>
            /\ SectorsIndexed(r.st)
            /\ DOMAIN r.st.Sectors = DOMAIN Sectors
            /\ r.st.Sectors[n].Expiration = e
            /\ n \in r.st.SectorExpirations[e]
            /\ n \notin r.st.SectorExpirations[Sectors[n].Expiration]
  /\ \A s \in SUBSET SectorNumbers :
       LET r == TerminateSectors(MSt, s)
       IN r.code = "Ok" =>
            /\ SectorsIndexed(r.st)
            /\ UnionOfSectorExpirations(r.st.SectorExpirations) = (DOMAIN Sectors) \ s
  /\ \A assignment \in [NewSectors -> DeadlineIndexes] :
       LET r == handleProvingPeriod(MSt, now, assignment)
       IN /\ r.code = "Ok"
          /\ SectorsIndexed(r.st)
          /\ (DOMAIN r.st.SectorExpirations)
               \cap expiredSectorEpochs(MSt, DeadlineInfo(MSt, now).PeriodStart) = {}

\* The cron is due with one sector at its expiration and another that
\* expires later; a bitfield of an earlier expiration is left empty by a
\* sector that moved or went.  The cron expires the first sector and keeps
\* the second.
C21_Witness ==
  /\ ProvingPeriodCronDue
  /\ expiredSectors(MSt, DeadlineInfo(MSt, now).PeriodStart) # {}
  /\ \E n \in DOMAIN Sectors, e \in DOMAIN SectorExpirations :
       /\ SectorExpirations[e] = {}
       /\ e < Sectors[n].Expiration
       /\ n \notin expiredSectors(MSt, DeadlineInfo(MSt, now).PeriodStart)
       /\ \A assignment \in [NewSectors -> DeadlineIndexes] :
            DOMAIN handleProvingPeriod(MSt, now, assignment).st.Sectors = {n}

\* The sector numbers a bitfield added to NewSectors or to Faults is drawn
\* from: one more than either limit, so that a set over the limit exists.
LimitSectorInputs == 1..(SectorsMax + 1)

\* C22: in every committed miner state NewSectors holds at most
\* NewSectorsPerPeriodMax sectors and Faults at most SectorsMax; from such
\* a state AddNewSectors returns an error whenever NewSectors merged with
\* its argument would hold more than NewSectorsPerPeriodMax sectors, and
\* AddFaults whenever Faults merged with its argument would hold more than
\* SectorsMax; below the limits both return nil.  A message whose call
\* returned the error commits nothing.
C22_NewSectorsAndFaultsBounded ==
  /\ Cardinality(NewSectors) <= NewSectorsPerPeriodMax
  /\ Cardinality(Faults) <= SectorsMax
  /\ \A s \in SUBSET LimitSectorInputs :
       AddNewSectors(MSt, s).code = "Err"
         <=> Cardinality(NewSectors \cup s) > NewSectorsPerPeriodMax
  /\ \A s \in SUBSET LimitSectorInputs :
       AddFaults(MSt, s, now).code = "Err"
         <=> Cardinality(Faults \cup s) > SectorsMax
  /\ \A n \in SectorNumbers :
       LET r == ProveCommitSector(MSt, now, n)
       IN r.code = "Ok" => Cardinality(r.st.NewSectors) <= NewSectorsPerPeriodMax
  /\ \A s \in SUBSET SectorNumbers :
       LET r == DeclareFaults(MSt, now, s)
       IN r.code = "Ok" => Cardinality(r.st.Faults) <= SectorsMax

\* NewSectors is at its limit and Faults is not empty; a sector still
\* pre-committed within its seal duration is proven, and the prove-commit
\* fails on AddNewSectors alone.
C22_Witness ==
  /\ Cardinality(NewSectors) = NewSectorsPerPeriodMax
  /\ Faults # {}
  /\ \E n \in DOMAIN PreCommittedSectors :
       /\ now <= PreCommittedSectors[n].PreCommitEpoch + MaxSealDuration
       /\ ProveCommitSector(MSt, now, n).code = "Err"
       /\ AddNewSectors(MSt, {n}).code = "Err"

\* The epochs DeadlineInfo is asked about: those of the model and a period
\* beyond them.
DeadlineEpochInputs == 0..(MaxMinerEpoch + WPoStProvingPeriod)

\* The period of a deadline starts on the boundary, modulo the proving
\* period, and holds the epoch.
PeriodHolds(deadline, boundary, epoch) ==
  /\ (deadline.PeriodStart - boundary) % WPoStProvingPeriod = 0
  /\ deadline.PeriodStart <= epoch
  /\ epoch < deadline.PeriodStart + WPoStProvingPeriod

\* C23: for every epoch E and every ProvingPeriodBoundary in
\* [0, WPoStProvingPeriod), the period start DeadlineInfo(E) reports is
\* congruent to the boundary modulo WPoStProvingPeriod and
\* periodStart <= E < periodStart + WPoStProvingPeriod; epochs smaller
\* than the boundary are in a period that starts before epoch zero.
C23_DeadlineInfoPeriod ==
  /\ ProvingPeriodBoundary \in BoundaryInputs
  /\ MSt.Info.ProvingPeriodBoundary = ProvingPeriodBoundary
  /\ \A E \in DeadlineEpochInputs :
       PeriodHolds(DeadlineInfo(MSt, E), ProvingPeriodBoundary, E)
  /\ \A E \in DeadlineEpochInputs, b \in BoundaryInputs :
       /\ PeriodHolds(ComputeProvingPeriodDeadline(b, E), b, E)
       /\ ComputeProvingPeriodDeadline(b, E).Index \in DeadlineIndexes

\* The miner's boundary is after the current epoch: the period the
\* constructor computed starts before epoch zero, and the cron it enrolled
\* is due at that period's last epoch.
C23_Witness ==
  /\ now < ProvingPeriodBoundary
  /\ DeadlineInfo(MSt, now).PeriodStart < 0
  /\ CronEvent(PeriodEnd(DeadlineInfo(MSt, now)), "ProvingPeriod", {}) \in CronEvents

\* The proving-period cron events among a set of events.
ProvingPeriodEvents(events) == {ev \in events : ev.EventType = "ProvingPeriod"}

\* An epoch is the last of a proving period of the boundary.
LastOfPeriod(epoch, boundary) == (epoch + 1 - boundary) % WPoStProvingPeriod = 0

\* C25: the proving-period cron perpetuates itself with exactly one event
\* pending.  The Constructor, at any epoch and with any boundary, enrolls
\* one ProvingPeriod event at the last epoch of the current period (the
\* next period start - 1); in every reachable state exactly one
\* ProvingPeriod event is pending, at an epoch of this period congruent to
\* ProvingPeriodBoundary - 1 modulo WPoStProvingPeriod; the end of an epoch
\* E at which it is due handles it without error and leaves exactly one,
\* at E + WPoStProvingPeriod; the end of any other epoch leaves it alone.
C25_ProvingPeriodCronPerpetual ==
  /\ \A b \in BoundaryInputs, E \in DeadlineEpochInputs :
       /\ ConstructorEnrolls(b, E).EventType = "ProvingPeriod"
       /\ ConstructorEnrolls(b, E).Epoch
            = ComputeProvingPeriodDeadline(b, E).PeriodStart + WPoStProvingPeriod - 1
       /\ E <= ConstructorEnrolls(b, E).Epoch
       /\ ConstructorEnrolls(b, E).Epoch < E + WPoStProvingPeriod
       /\ LastOfPeriod(ConstructorEnrolls(b, E).Epoch, b)
  /\ Cardinality(ProvingPeriodEvents(CronEvents)) = 1
  /\ \A ev \in ProvingPeriodEvents(CronEvents) :
       /\ now <= ev.Epoch
       /\ ev.Epoch < now + WPoStProvingPeriod
       /\ LastOfPeriod(ev.Epoch, ProvingPeriodBoundary)
  /\ \A assignment \in [NewSectors -> DeadlineIndexes] :
       ProvingPeriodEvents(EpochEndOutcome(assignment).events)
         = IF ProvingPeriodCronDue
           THEN {CronEvent(now + WPoStProvingPeriod, "ProvingPeriod", {})}
           ELSE ProvingPeriodEvents(CronEvents)
  /\ \A assignment \in [NewSectors -> DeadlineIndexes] :
       /\ handleProvingPeriod(MSt, now, assignment).code = "Ok"
       /\ OnDeferredCronEventEnrolls(now, CronEvent(now, "ProvingPeriod", {}))
            = {CronEvent(now + WPoStProvingPeriod, "ProvingPeriod", {})}

\* The event due now was enrolled by the handling of the one before it, a
\* period ago, by a miner whose boundary is not zero and who has sectors.
C25_Witness ==
  /\ ProvingPeriodCronDue
  /\ now >= WPoStProvingPeriod
  /\ ProvingPeriodBoundary > 0
  /\ Sectors # EmptyMap
  /\ \A assignment \in [NewSectors -> DeadlineIndexes] :
       CronEvent(now + WPoStProvingPeriod, "ProvingPeriod", {})
         \in EpochEndOutcome(assignment).events

\* The cron event that expires the pre-commit of a sector made at an epoch.
PreCommitExpiryOf(sectorNo, preCommitEpoch) ==
  CronEvent(preCommitEpoch + MaxSealDuration + 1, "PreCommitExpiry", {sectorNo})

\* C26: PreCommitSector aborts with ErrIllegalArgument, the state as it
\* was, when the sector number is already pre-committed, when the
\* expiration is not after the current epoch, or when the expiration is not
\* the last epoch of a proving period.  A valid pre-commit is put into
\* PreCommittedSectors with its expiration and epoch, nothing else changes,
\* and it enrolls the PreCommitExpiry cron event of the sector at
\* now + MaxSealDuration + 1; so every pre-committed sector has that event
\* pending.
C26_PreCommitSectorChecks ==
  /\ \A n \in SectorNumbers, e \in ExpirationInputs \cup {now} :
       LET r == PreCommitSector(MSt, Balance, now, n, e)
       IN /\ (\/ n \in DOMAIN PreCommittedSectors
              \/ e <= now
              \/ ~LastOfPeriod(e, ProvingPeriodBoundary))
               => r.code = "ErrIllegalArgument" /\ r.st = MSt
          /\ (/\ n \notin (DOMAIN PreCommittedSectors) \cup (DOMAIN Sectors)
              /\ e > now
              /\ LastOfPeriod(e, ProvingPeriodBoundary))
               => /\ r.code = "Ok"
                  /\ DOMAIN r.st.PreCommittedSectors = (DOMAIN PreCommittedSectors) \cup {n}
                  /\ r.st.PreCommittedSectors[n].Expiration = e
                  /\ r.st.PreCommittedSectors[n].PreCommitEpoch = now
                  /\ \A m \in DOMAIN PreCommittedSectors :
                       r.st.PreCommittedSectors[m] = PreCommittedSectors[m]
                  /\ [r.st EXCEPT !.PreCommittedSectors = PreCommittedSectors] = MSt
                  /\ PreCommitSectorEnrolls(now, n) = {PreCommitExpiryOf(n, now)}
  /\ \A n \in DOMAIN PreCommittedSectors :
       /\ PreCommitExpiryOf(n, PreCommittedSectors[n].PreCommitEpoch) \in CronEvents
       /\ PreCommittedSectors[n].Expiration > PreCommittedSectors[n].PreCommitEpoch
       /\ LastOfPeriod(PreCommittedSectors[n].Expiration, ProvingPeriodBoundary)

\* A sector is pre-committed and its expiry cron is pending; a second
\* pre-commit of its number is rejected, and so is that of an unused number
\* with a later expiration that is not the end of a period, while the
\* unused number is accepted with one that is.
C26_Witness ==
  /\ \E n \in DOMAIN PreCommittedSectors :
       /\ PreCommitExpiryOf(n, PreCommittedSectors[n].PreCommitEpoch) \in CronEvents
       /\ \E e \in ExpirationInputs :
            /\ e > now
            /\ LastOfPeriod(e, ProvingPeriodBoundary)
            /\ PreCommitSector(MSt, Balance, now, n, e).code = "ErrIllegalArgument"
  /\ \E m \in SectorNumbers, e1, e2 \in ExpirationInputs :
       /\ m \notin (DOMAIN PreCommittedSectors) \cup (DOMAIN Sectors)
       /\ e1 > now
       /\ PreCommitSector(MSt, Balance, now, m, e1).code = "ErrIllegalArgument"
       /\ PreCommitSector(MSt, Balance, now, m, e2).code = "Ok"

\* The deadlines of the period with no Windowed PoSt recorded, the sectors
\* due at them that are not faults yet, and the sectors due only at
\* deadlines that have one.
MissedDeadlines == {d \in DeadlineIndexes : d \notin PostSubmissions}
MissedSectors == (UNION {Deadlines[d] : d \in MissedDeadlines}) \ Faults
ProvenSectors ==
  ((UNION {Deadlines[d] : d \in PostSubmissions \cap DeadlineIndexes}) \ Faults)
    \ MissedSectors

\* The sectors of a set are faults of the epoch, in a State.
FaultsOfEpoch(st, sectorNos, epoch) ==
  /\ sectorNos \subseteq st.Faults
  /\ sectorNos # {} =>
       /\ epoch \in DOMAIN st.FaultEpochs
       /\ sectorNos \subseteq st.FaultEpochs[epoch]

\* C27: the cron at the end of a proving period adds every sector that is
\* due at a deadline with no Windowed PoSt recorded in PostSubmissions, and
\* that is not a fault already, to Faults and to FaultEpochs[periodStart];
\* sectors due only at deadlines with a recorded submission are not added
\* to Faults; PostSubmissions is empty after the cron.  The sectors are
\* added by the second step of the cron; those the same cron then expires
\* leave Faults with their sector, all others are faults of periodStart
\* when the cron is done.
C27_MissedPoStBecomesFault ==
  /\ LET r == handleProvingPeriodFaults(MSt, now)
     IN /\ r.code = "Ok"
        /\ FaultsOfEpoch(r.st, MissedSectors, DeadlineInfo(MSt, now).PeriodStart)
        /\ r.st.Faults = Faults \cup MissedSectors
        /\ ProvenSectors \cap r.st.Faults = {}
  /\ \A assignment \in [NewSectors -> DeadlineIndexes] :
       LET r == handleProvingPeriod(MSt, now, assignment)
       IN /\ r.code = "Ok"
          /\ FaultsOfEpoch(r.st, MissedSectors \cap DOMAIN r.st.Sectors,
                           DeadlineInfo(MSt, now).PeriodStart)
          /\ MissedSectors \ (DOMAIN r.st.Sectors)
               \subseteq expiredSectors(MSt, DeadlineInfo(MSt, now).PeriodStart)
                           \cup expiredFaults(MSt, now)
          /\ ProvenSectors \cap r.st.Faults = {}
          /\ r.st.PostSubmissions = {}
  /\ ProvingPeriodCronDue =>
       \A assignment \in [NewSectors -> DeadlineIndexes] :
         LET st == EpochEndOutcome(assignment).st
         IN /\ st.PostSubmissions = {}
            /\ FaultsOfEpoch(st, MissedSectors \cap DOMAIN st.Sectors,
                             DeadlineInfo(MSt, now).PeriodStart)
            /\ ProvenSectors \cap st.Faults = {}

\* The period ends with a submission recorded for one deadline and a sector
\* due at another that has none; the sector is not a fault and does not
\* expire.  The cron makes it a fault of the period's start and clears the
\* submissions.
C27_Witness ==
  /\ ProvingPeriodCronDue
  /\ PostSubmissions # {}
  /\ \E m \in MissedSectors :
       /\ m \notin expiredSectors(MSt, DeadlineInfo(MSt, now).PeriodStart)
       /\ \A assignment \in [NewSectors -> DeadlineIndexes] :
            /\ m \in EpochEndOutcome(assignment).st.Faults
            /\ m \in EpochEndOutcome(assignment).st.FaultEpochs[
                       DeadlineInfo(MSt, now).PeriodStart]
            /\ EpochEndOutcome(assignment).st.PostSubmissions = {}

\* The period ends with a sector that is no fault and is due only at a
\* deadline that has a submission.
C27_ProvenWitness == ProvingPeriodCronDue /\ ProvenSectors # {}

\* ---------------------------------------------------------------------
\* Claims on rounding, on fault ages and on the reporter's reward
\* ---------------------------------------------------------------------

\* The multiples of a unit around the epochs of QuantizeEpochs.
MultiplesOf(u) ==
  {k * u : k \in (0 - MaxQuantEpoch - 1)..(MaxQuantEpoch + 1)}

\* C31: for every signed epoch e, negative ones too, and every unit u > 0,
\* quantizeUp(e, u) is the least multiple of u that is >= e and
\* quantizeDown(e, u) is the greatest multiple of u that is <= e.
C31_QuantizeLeastAndGreatest ==
  \A e \in QuantizeEpochs \cup {now} \cup (DOMAIN VestingFunds), u \in QuantizeUnits :
    /\ quantizeUp(e, u) \in MultiplesOf(u)
    /\ quantizeUp(e, u) >= e
    /\ \A m \in MultiplesOf(u) : m >= e => quantizeUp(e, u) <= m
    /\ quantizeDown(e, u) \in MultiplesOf(u)
    /\ quantizeDown(e, u) <= e
    /\ \A m \in MultiplesOf(u) : m <= e => quantizeDown(e, u) >= m

\* The same for the epochs that are not negative, where it holds.
C31_QuantizeOfNonNegative ==
  \A e \in QuantizeEpochs \cup {now} \cup (DOMAIN VestingFunds), u \in QuantizeUnits :
    e >= 0 =>
      /\ quantizeUp(e, u) \in MultiplesOf(u)
      /\ quantizeUp(e, u) >= e
      /\ \A m \in MultiplesOf(u) : m >= e => quantizeUp(e, u) <= m
      /\ quantizeDown(e, u) \in MultiplesOf(u)
      /\ quantizeDown(e, u) <= e
      /\ \A m \in MultiplesOf(u) : m <= e => quantizeDown(e, u) >= m

\* An epoch is the first of a proving period of the boundary.
FirstOfPeriod(epoch, boundary) == (epoch - boundary) % WPoStProvingPeriod = 0

\* The sectors are in no field of a State.
AbsentFromState(st, sectorNos) ==
  /\ sectorNos \cap DOMAIN st.Sectors = {}
  /\ sectorNos \cap UnionOfSectorExpirations(st.SectorExpirations) = {}
  /\ \A d \in DeadlineIndexes : sectorNos \cap st.Deadlines[d] = {}
  /\ sectorNos \cap st.Faults = {}
  /\ \A e \in DOMAIN st.FaultEpochs : sectorNos \cap st.FaultEpochs[e] = {}

\* The cron terminates the sectors whose fault epoch is older than
\* FaultMaxAge: they and their fault epochs are gone when it is done.
CronTerminatesOldFaults ==
  \A assignment \in [NewSectors -> DeadlineIndexes] :
    /\ handleProvingPeriod(MSt, now, assignment).code = "Ok"
    /\ AbsentFromState(handleProvingPeriod(MSt, now, assignment).st,
                       expiredFaults(MSt, now))
    /\ expiredFaultEpochs(MSt, now)
         \cap DOMAIN handleProvingPeriod(MSt, now, assignment).st.FaultEpochs = {}

\* C32: in every reachable miner state FaultEpochs has at most as many
\* entries as a fault may last proving periods (14 in the policy) and every
\* key is the start epoch of a proving period; the proving-period cron
\* terminates a sector whose fault epoch is older than FaultMaxAge, and the
\* sector is then absent from Sectors, SectorExpirations, every deadline,
\* Faults and FaultEpochs.
C32_FaultEpochsBounded ==
  /\ Cardinality(DOMAIN FaultEpochs) <= FaultMaxPeriods
  /\ \A e \in DOMAIN FaultEpochs : FirstOfPeriod(e, ProvingPeriodBoundary)
  /\ CronTerminatesOldFaults

\* The part of C32 on the cron alone, which holds.
C32_CronTerminatesOldFaults == CronTerminatesOldFaults

\* ---------------------------------------------------------------------
\* The reward of the reporter of a consensus fault (policy.go:112-159)
\* ---------------------------------------------------------------------

BigFrac(numerator, denominator) ==
  [numerator |-> numerator, denominator |-> denominator]

\* The package variables of policy.go:112-121.
consensusFaultReporterInitialShare == BigFrac(1, 1000)
consensusFaultReporterShareGrowthRate == BigFrac(101251, 100000)

\* big.Exp, big.Min and big.Div of amounts that are not negative.
RECURSIVE BigExp(_, _)
BigExp(a, e) == IF e <= 0 THEN 1 ELSE a * BigExp(a, e - 1)
BigMin(a, b) == IF a < b THEN a ELSE b
BigDiv(a, b) == a \div b

\* The reward with the share of the reporter capped at the whole collateral,
\* as the comment of lines 145-147 has it, not at half of it.
rewardCappedAtCollateral(initialShare, growthRate, elapsedEpoch, collateral) ==
  BigMin(BigDiv(BigExp(growthRate.numerator, elapsedEpoch)
                  * initialShare.numerator * collateral,
                BigExp(growthRate.denominator, elapsedEpoch)
                  * initialShare.denominator),
         collateral)

\* Lines 148-158, for the values the two package variables hold.
rewardOfShares(initialShare, growthRate, elapsedEpoch, collateral) ==
  BigMin(BigDiv(BigExp(growthRate.numerator, elapsedEpoch)
                  * initialShare.numerator * collateral,
                BigExp(growthRate.denominator, elapsedEpoch)
                  * initialShare.denominator),
         BigDiv(collateral * 1, 2))

rewardForConsensusSlashReport(elapsedEpoch, collateral) ==
  rewardOfShares(consensusFaultReporterInitialShare,
                 consensusFaultReporterShareGrowthRate, elapsedEpoch, collateral)

\* The inputs of the reward.  The code computes in big integers; here the
\* products must fit the integers of the model checker, so the policy's
\* growth rate is applied for at most one epoch, to the collaterals around
\* the amounts at which the reward changes, and a steeper growth from a
\* larger share for the epochs up to MaxElapsed, where the cap is reached.
MaxElapsed == 4
MaxCollateral == 20
SteepShare == BigFrac(1, 4)
SteepGrowth == BigFrac(3, 2)
PolicyCollaterals == (0..MaxCollateral) \cup {987, 988, 999, 1000, 1001, 1975, 1976, 20000}
PolicyRewardInputs ==
  [initialShare : {consensusFaultReporterInitialShare},
   growthRate : {consensusFaultReporterShareGrowthRate},
   elapsedEpoch : 0..1, collateral : PolicyCollaterals]
SteepRewardInputs ==
  [initialShare : {SteepShare}, growthRate : {SteepGrowth},
   elapsedEpoch : 0..MaxElapsed, collateral : 0..MaxCollateral]
RewardInputs == PolicyRewardInputs \cup SteepRewardInputs

rewardOfInput(in) ==
  rewardOfShares(in.initialShare, in.growthRate, in.elapsedEpoch, in.collateral)

\* A report: the reward is computed for the elapsed epochs and the
\* collateral, and returned.
CallRewardForConsensusSlashReport(in) ==
  /\ mlast' = [op |-> "rewardForConsensusSlashReport", ret |-> rewardOfInput(in),
               arg |-> in]
  /\ UNCHANGED <<PreCommitDeposits, LockedFunds, VestingFunds, PreCommittedSectors,
                 Sectors, Faults, FaultEpochs, Recoveries, NewSectors,
                 SectorExpirations, Deadlines, PostSubmissions,
                 ProvingPeriodBoundary, CronEvents, Balance, now>>
  /\ marketUnchanged

NextReward == \E in \in RewardInputs : CallRewardForConsensusSlashReport(in)

SpecReward == Init /\ [][NextReward]_<<vars, mvars>>

\* q is the floor of the collateral times the share grown for the elapsed
\* epochs: q <= c x s x g^e < q + 1, in whole numbers.
IsFloorOfShare(q, in) ==
  /\ q * BigExp(in.growthRate.denominator, in.elapsedEpoch) * in.initialShare.denominator
       <= in.collateral * in.initialShare.numerator
            * BigExp(in.growthRate.numerator, in.elapsedEpoch)
  /\ in.collateral * in.initialShare.numerator
       * BigExp(in.growthRate.numerator, in.elapsedEpoch)
       < (q + 1) * BigExp(in.growthRate.denominator, in.elapsedEpoch)
           * in.initialShare.denominator

\* r is the lesser of that floor and of half the collateral, rounded down.
IsCappedShare(r, in) ==
  /\ 2 * r <= in.collateral
  /\ \/ IsFloorOfShare(r, in)
     \/ /\ in.collateral < 2 * (r + 1)
        /\ r * BigExp(in.growthRate.denominator, in.elapsedEpoch)
             * in.initialShare.denominator
             <= in.collateral * in.initialShare.numerator
                  * BigExp(in.growthRate.numerator, in.elapsedEpoch)

SendStep(msg) == [kind |-> "send", msg |-> msg]
TransactionBegin == [kind |-> "begin", msg |-> SendFunds("", 0)]
TransactionCommit == [kind |-> "commit", msg |-> SendFunds("", 0)]

\* A handler with one rt.State().Transaction: the messages it sends before
\* the call, the transaction, the messages it sends after it.
HandlerSteps(sendsBefore, sendsAfter) ==
  [i \in DOMAIN sendsBefore |-> SendStep(sendsBefore[i])]
    \o <<TransactionBegin, TransactionCommit>>
    \o [i \in DOMAIN sendsAfter |-> SendStep(sendsAfter[i])]

\* The messages among the steps, in order.
SendsOf(steps) ==
  [i \in 1..Len(SelectSeq(steps, LAMBDA x : x.kind = "send")) |->
     SelectSeq(steps, LAMBDA x : x.kind = "send")[i].msg]

\* A faulty publish: UseBytes is sent once the transaction has committed.
PublishStorageDealsStepsSendsLast(r, ub) ==
  HandlerSteps(<<>>, ub.sends \o <<SendFunds(BurntFundsActorAddr, r.slashed)>>)

\* market_actor.go:127-139, 71-114, 154-265, 283-344, 375-428, 434-448 and
\* 454-502: where each handler sends, relative to its transaction.
AddBalanceSteps == HandlerSteps(<<>>, <<>>)
WithdrawBalanceSteps(recipient, amountSlashedTotal, amountExtracted) ==
  HandlerSteps(<<>>, WithdrawSends(recipient, amountSlashedTotal, amountExtracted))
PublishStorageDealsSteps(r, ub) ==
  HandlerSteps(ub.sends, <<SendFunds(BurntFundsActorAddr, r.slashed)>>)
VerifyDealsOnSectorProveCommitSteps == HandlerSteps(<<>>, <<>>)
OnMinerSectorsTerminateSteps == HandlerSteps(<<>>, <<>>)
HandleExpiredDealsSteps(slashed) == HandlerSteps(<<>>, HandleExpiredDealsBurn(slashed))
HandleInitTimeoutDealsSteps(r) ==
  HandlerSteps(<<>>, RestoreBytesSends(r.verifiedDeals)
                       \o <<SendFunds(BurntFundsActorAddr, r.slashed)>>)

\* A handler that ran to its end from this state: the message, its outcome
\* and its steps.
HandlerRun(op, out, steps) == [op |-> op, out |-> out, steps |-> steps]

WithdrawBalanceRun(caller, a, amount) ==
  HandlerRun("WithdrawBalance", WithdrawBalanceOutcome(caller, a, amount),
    WithdrawBalanceSteps(
      escrowAddress(caller, a).recipient,
      WithdrawTransaction(St, escrowAddress(caller, a).nominal, amount, now).slashed,
      WithdrawTransaction(St, escrowAddress(caller, a).nominal, amount, now).ex))

PublishStorageDealsRun(caller, deals) ==
  HandlerRun("PublishStorageDeals", PublishStorageDealsOutcome(caller, deals),
    PublishStorageDealsSteps(
      PublishLoop(Begin(St), deals, ResolveAddress(deals[1].Proposal.Provider).addr,
                  deals[1].Proposal.Provider, now),
      UseBytesAll(deals, [ok |-> TRUE, cap |-> DataCap, sends |-> <<>>])))

HandleExpiredDealsRun(caller, dealIDs) ==
  HandlerRun("HandleExpiredDeals", HandleExpiredDealsOutcome(caller, dealIDs),
    HandleExpiredDealsSteps(
      updatePendingDealStates(Begin(St), dealIDs, HandleExpiredDealsEpoch(now)).slashed))

HandleInitTimeoutDealsRun(caller, dealIDs) ==
  HandlerRun("HandleInitTimeoutDeals",
    HandleInitTimeoutDealsOutcome(caller, dealIDs, FALSE),
    HandleInitTimeoutDealsSteps(InitTimeoutLoop(Begin(St), dealIDs, now)))

HandlerRuns ==
  {run \in
     {HandlerRun("AddBalance", AddBalanceOutcome(ca[1], ca[2], v), AddBalanceSteps) :
        ca \in EscrowCallInputs, v \in ValueInputs}
     \cup {WithdrawBalanceRun(ca[1], ca[2], v) :
             ca \in EscrowCallInputs, v \in AmountInputs \cap Nat}
     \cup {PublishStorageDealsRun(cd[1], cd[2]) :
             cd \in {x \in PublishInputs : Len(x[2]) > 0}}
     \cup {HandlerRun("VerifyDealsOnSectorProveCommit",
                      VerifyDealsOnSectorProveCommitOutcome(ci[1], ci[2], e),
                      VerifyDealsOnSectorProveCommitSteps) :
             ci \in MinerCallInputs, e \in SectorExpiryInputs}
     \cup {HandlerRun("OnMinerSectorsTerminate",
                      OnMinerSectorsTerminateOutcome(ci[1], ci[2]),
                      OnMinerSectorsTerminateSteps) : ci \in MinerCallInputs}
     \cup {HandleExpiredDealsRun(ci[1], ci[2]) : ci \in SignableCallInputs}
     \cup {HandleInitTimeoutDealsRun(ci[1], ci[2]) : ci \in SignableCallInputs} :
   run.out.code = "Ok"}

\* The positions of the steps of a kind, and of the messages of a method or
\* to an actor.
StepsOfKind(steps, kind) == {i \in DOMAIN steps : steps[i].kind = kind}
SendsOfMethod(steps, method) ==
  {i \in StepsOfKind(steps, "send") : steps[i].msg.method = method}
BurnSteps(steps) ==
  {i \in SendsOfMethod(steps, "Send") : steps[i].msg.to = BurntFundsActorAddr}
PayoutSteps(steps) ==
  {i \in SendsOfMethod(steps, "Send") : steps[i].msg.to # BurntFundsActorAddr}

\* The steps are those of the outcome, with one transaction, and the burn
\* precedes the payout.
StepsWellFormed(run) ==
  /\ SendsOf(run.steps) = run.out.sends
  /\ Cardinality(StepsOfKind(run.steps, "begin")) = 1
  /\ Cardinality(StepsOfKind(run.steps, "commit")) = 1
  /\ \A b \in StepsOfKind(run.steps, "begin"), c \in StepsOfKind(run.steps, "commit") :
       b < c /\ \A i \in StepsOfKind(run.steps, "send") : i < b \/ c < i
  /\ \A b \in BurnSteps(run.steps), p \in PayoutSteps(run.steps) : b < p

C34_BurnAndPayoutWitness ==
  \E run \in HandlerRuns : BurnSteps(run.steps) # {} /\ PayoutSteps(run.steps) # {}

C34_RestoreBytesWitness ==
  \E run \in HandlerRuns : SendsOfMethod(run.steps, "RestoreBytes") # {}

\* ---------------------------------------------------------------------
\* Claims on the funds of the parties of the Market
\* ---------------------------------------------------------------------

\* The addresses that are client or provider of a deal in Proposals.
PartiesOfDeals ==
  {Proposals[d].Client : d \in DOMAIN Proposals}
    \cup {Proposals[d].Provider : d \in DOMAIN Proposals}

\* What the update of deal d at this epoch takes from its client.
PaymentTaken(d) ==
  Bal(EscrowTable, Proposals[d].Client)
    - Bal(HandleExpiredDealsOutcome("c1", <<d>>).st.EscrowTable, Proposals[d].Client)

\* C35: the locked funds of a party are exactly released by the end of its
\* deals.  An address that is client or provider of no deal in Proposals has
\* nothing locked, and what an update takes from the client of a deal never
\* exceeds StoragePricePerEpoch x (EndEpoch - StartEpoch).
C35_LockedReleasedWithDeals ==
  /\ \A a \in (DOMAIN LockedTable) \ PartiesOfDeals : LockedTable[a] = 0
  /\ \A d \in DOMAIN Proposals :
       HandleExpiredDealsOutcome("c1", <<d>>).code = "Ok" =>
         PaymentTaken(d) <= Proposals[d].StoragePricePerEpoch * Duration(Proposals[d])

\* The first half of C35 alone.
C35_NoDealsNothingLocked ==
  \A a \in (DOMAIN LockedTable) \ PartiesOfDeals : LockedTable[a] = 0

\* The sum of the rows of a balance table.
RECURSIVE SumOfRows(_, _)
SumOfRows(t, rows) ==
  IF rows = {} THEN 0
  ELSE Bal(t, CHOOSE a \in rows : TRUE)
         + SumOfRows(t, rows \ {CHOOSE a \in rows : TRUE})

EscrowTotal(st) == SumOfRows(st.EscrowTable, DOMAIN st.EscrowTable)

\* The value the messages of a handler carry out of the actor.
RECURSIVE ValueSent(_)
ValueSent(sends) ==
  IF sends = <<>> THEN 0 ELSE Head(sends).value + ValueSent(Tail(sends))

\* The message keeps the books: what it received less what it sent is what
\* the rows of EscrowTable gained.
Conserves(out, received) ==
  out.code = "Ok" => EscrowTotal(out.st) = EscrowTotal(St) + received - ValueSent(out.sends)

\* The messages other than HandleInitTimeoutDeals keep the books.
ConservedByOtherMessages ==
  /\ \A ca \in EscrowCallInputs, v \in ValueInputs :
       Conserves(AddBalanceOutcome(ca[1], ca[2], v), v)
  /\ \A ca \in EscrowCallInputs, v \in AmountInputs :
       Conserves(WithdrawBalanceOutcome(ca[1], ca[2], v), 0)
  /\ \A cd \in PublishInputs : Conserves(PublishStorageDealsOutcome(cd[1], cd[2]), 0)
  /\ \A ci \in MinerCallInputs, e \in SectorExpiryInputs :
       Conserves(VerifyDealsOnSectorProveCommitOutcome(ci[1], ci[2], e), 0)
  /\ \A ci \in MinerCallInputs : Conserves(OnMinerSectorsTerminateOutcome(ci[1], ci[2]), 0)
  /\ \A ci \in SignableCallInputs : Conserves(HandleExpiredDealsOutcome(ci[1], ci[2]), 0)

\* C36: escrow funds are conserved.  After every Market message the value
\* received through AddBalance less the value sent out (payouts and
\* transfers to the burnt-funds actor) is what the rows of EscrowTable sum
\* to: every message changes the sum by what it received less what it sent,
\* so what leaves escrow as slashed collateral is sent to the burnt-funds
\* actor by the same message.
C36_EscrowConserved ==
  /\ ConservedByOtherMessages
  /\ \A ci \in SignableCallInputs, b \in BOOLEAN :
       Conserves(HandleInitTimeoutDealsOutcome(ci[1], ci[2], b), 0)

\* ---------------------------------------------------------------------
\* Claims on the activation of a deal
\* ---------------------------------------------------------------------

\* The deals that are in a proven sector.
ActivatedDeals == {d \in DOMAIN States : States[d].SectorStartEpoch >= 0}

\* The list names a deal that is activated, or names an id twice.
ListsActivatedOrRepeats(ids) ==
  \/ \E i \in DOMAIN ids : ids[i] \in ActivatedDeals
  \/ ~Distinct(ids)

\* C37: a deal is activated at most once.  No message changes the
\* SectorStartEpoch of a deal once it is >= 0, and a
\* VerifyDealsOnSectorProveCommit that lists an activated deal, or an id
\* twice, aborts and changes no deal state.
C37_ActivatedAtMostOnce ==
  /\ \A out \in MarketOutcomes :
       out.code = "Ok" =>
         \A d \in ActivatedDeals \cap DOMAIN out.st.States :
           out.st.States[d].SectorStartEpoch = States[d].SectorStartEpoch
  /\ \A ci \in MinerCallInputs, e \in SectorExpiryInputs :
       ListsActivatedOrRepeats(ci[2]) =>
         /\ VerifyDealsOnSectorProveCommitOutcome(ci[1], ci[2], e).code # "Ok"
         /\ Committed(VerifyDealsOnSectorProveCommitOutcome(ci[1], ci[2], e)).States
              = States

\* An activated deal that passes every other check of the activation, next
\* to a deal of the same provider that can still be activated.
C37_Witness ==
  \E d \in ActivatedDeals, o \in (DOMAIN Proposals) \ ActivatedDeals :
    /\ now <= Proposals[d].StartEpoch
    /\ States[d].SectorStartEpoch < now
    /\ VerifyDealsOnSectorProveCommitOutcome(Proposals[o].Provider, <<o>>, 3).code = "Ok"
    /\ VerifyDealsOnSectorProveCommitOutcome(Proposals[o].Provider, <<o, d>>, 3).code
         = "ErrIllegalArgument"
    /\ VerifyDealsOnSectorProveCommitOutcome(Proposals[o].Provider, <<o, o>>, 3).code
         = "ErrIllegalArgument"

\* ---------------------------------------------------------------------
\* Claims on the errors of the miner's set mutators
\* ---------------------------------------------------------------------

\* The four sets of the state are as the miner has them.
SameSectorSets(st) ==
  /\ st.NewSectors = NewSectors
  /\ st.Faults = Faults
  /\ st.FaultEpochs = FaultEpochs
  /\ st.Recoveries = Recoveries

\* C38: the set mutators are atomic on their limit errors.  When
\* AddNewSectors, AddFaults or AddRecoveries returns its error because the
\* set would grow over its maximum, NewSectors, Faults, FaultEpochs and
\* Recoveries are what they were before the call, as SectorExpirations is
\* when AddSectorExpirations returns its limit error.
C38_LimitErrorsAtomic ==
  /\ \A s \in SUBSET LimitSectorInputs :
       /\ AddNewSectors(MSt, s).code = "Err" => SameSectorSets(AddNewSectors(MSt, s).st)
       /\ AddFaults(MSt, s, now).code = "Err" => SameSectorSets(AddFaults(MSt, s, now).st)
       /\ AddRecoveries(MSt, s).code = "Err" => SameSectorSets(AddRecoveries(MSt, s).st)
  /\ \A s \in SUBSET LimitSectorInputs, e \in FaultEpochInputs :
       AddSectorExpirations(MSt, e, s).code = "Err" =>
         AddSectorExpirations(MSt, e, s).st.SectorExpirations = SectorExpirations

\* The part of C38 on AddSectorExpirations alone.
C38_AddSectorExpirationsAtomic ==
  \A s \in SUBSET LimitSectorInputs, e \in FaultEpochInputs :
    AddSectorExpirations(MSt, e, s).code = "Err" =>
      AddSectorExpirations(MSt, e, s).st.SectorExpirations = SectorExpirations

\* The lists of epochs ClearFaultEpochs and ClearSectorExpirations are
\* called with.
ClearEpochInputs == SeqsUpTo(FaultEpochInputs, MaxIdList)

\* C39: ClearFaultEpochs returns nil only if every listed epoch is absent
\* from FaultEpochs afterwards.  When the deletion of a listed epoch fails,
\* as it does for an epoch without an entry, an error is returned, and the
\* deletion of the other listed epochs is not lost without one; this is the
\* contract of ClearSectorExpirations.
C39_ClearFaultEpochsReportsFailure ==
  \A epochs \in ClearEpochInputs :
    /\ ClearFaultEpochs(MSt, epochs).code = "Ok" =>
         \A i \in DOMAIN epochs :
           epochs[i] \notin DOMAIN ClearFaultEpochs(MSt, epochs).st.FaultEpochs
    /\ (\E i \in DOMAIN epochs : epochs[i] \notin DOMAIN FaultEpochs) =>
         ClearFaultEpochs(MSt, epochs).code = "Err"

\* The same contract, of ClearSectorExpirations.
C39_ClearSectorExpirationsReportsFailure ==
  \A epochs \in ClearEpochInputs :
    /\ ClearSectorExpirations(MSt, epochs).code = "Ok" =>
         \A i \in DOMAIN epochs :
           epochs[i] \notin DOMAIN ClearSectorExpirations(MSt, epochs).st.SectorExpirations
    /\ (\E i \in DOMAIN epochs : epochs[i] \notin DOMAIN SectorExpirations) =>
         ClearSectorExpirations(MSt, epochs).code = "Err"

\* A fault epoch is recorded, and a list names it next to an epoch without
\* an entry: nil is returned and the recorded epoch is still there.
C39_LostDeletion ==
  \E epochs \in ClearEpochInputs :
    /\ \E i \in DOMAIN epochs : epochs[i] \in DOMAIN FaultEpochs
    /\ ClearFaultEpochs(MSt, epochs).code = "Ok"
    /\ \E i \in DOMAIN epochs :
         epochs[i] \in DOMAIN ClearFaultEpochs(MSt, epochs).st.FaultEpochs

\* ---------------------------------------------------------------------
\* Claims on the vesting loop of AddLockedFunds
\* ---------------------------------------------------------------------

\* The passes of the loop of AddLockedFunds (lines 767-789), in order: the
\* epoch of the pass, its rounded epoch, the target and what the pass adds
\* to the entry of the rounded epoch.
LoopPass(e, vestedSoFar, vestBegin, vestingSum, spec) ==
  [e |-> e,
   vestEpoch |-> quantizeUp(e, spec.Quantization),
   elapsed |-> quantizeUp(e, spec.Quantization) - vestBegin,
   targetVest |-> targetVest(vestingSum, quantizeUp(e, spec.Quantization) - vestBegin, spec),
   vestThisTime |-> targetVest(vestingSum, quantizeUp(e, spec.Quantization) - vestBegin, spec)
                      - vestedSoFar]

RECURSIVE AddLockedFundsPasses(_, _, _, _, _)
AddLockedFundsPasses(e, vestedSoFar, vestBegin, vestingSum, spec) ==
  IF ~(vestedSoFar < vestingSum) THEN <<>>
  ELSE <<LoopPass(e, vestedSoFar, vestBegin, vestingSum, spec)>>
         \o AddLockedFundsPasses(
              e + spec.StepDuration,
              LoopPass(e, vestedSoFar, vestBegin, vestingSum, spec).targetVest,
              vestBegin, vestingSum, spec)

\* The passes of the call at this epoch.
PassesOf(vestingSum, spec) ==
  AddLockedFundsPasses(now + spec.InitialDelay + spec.StepDuration, 0,
                       now + spec.InitialDelay, vestingSum, spec)

\* The table after the passes.
RECURSIVE ApplyPasses(_, _)
ApplyPasses(vestingFunds, passes) ==
  IF passes = <<>> THEN vestingFunds
  ELSE ApplyPasses(
         ArrSet(vestingFunds, Head(passes).vestEpoch,
                ArrGet(vestingFunds, Head(passes).vestEpoch, 0) + Head(passes).vestThisTime),
         Tail(passes))

\* The vesting schedules and sums the loop is run on: periods from 0,
\* steps and units that do and do not divide them.
LoopSpecInputs ==
  {VestSpec(delay, period, step, quant) :
     delay \in {0, 1}, period \in {0, 1, 3, 4}, step \in {1, 2}, quant \in {1, 3}}
     \cup VestSpecInputs
LoopSumInputs == {0, 1, 3}

\* C40: AddLockedFunds terminates for every vestingSum >= 0 and every
\* schedule with StepDuration > 0, Quantization > 0 and VestPeriod >= 0.
\* Its loop makes no pass for vestingSum = 0; otherwise its last pass is
\* the first whose rounded epoch is at least VestPeriod after vestBegin, so
\* it makes at most VestPeriod / StepDuration + 1 passes, and every pass
\* adds an amount >= 0.  The passes are those of the call.
C40_VestingLoopEnds ==
  \A vestingSum \in LoopSumInputs, spec \in LoopSpecInputs :
    LET passes == PassesOf(vestingSum, spec)
    IN /\ AddLockedFunds(MSt, now, vestingSum, spec).code = "Ok"
       /\ AddLockedFunds(MSt, now, vestingSum, spec).st.VestingFunds
            = ApplyPasses(VestingFunds, passes)
       /\ vestingSum = 0 <=> passes = <<>>
       /\ Len(passes) <= spec.VestPeriod \div spec.StepDuration + 1
       /\ \A i \in DOMAIN passes :
            /\ passes[i].vestThisTime >= 0
            /\ passes[i].elapsed >= spec.VestPeriod <=> i = Len(passes)

\* A sum was added to a table that held funds, and at this epoch a schedule
\* takes several passes, one of which adds nothing, while a schedule with
\* period 0 takes one.
C40_Witness ==
  /\ mlast.op = "AddLockedFunds"
  /\ mlast.arg > 0
  /\ LockedFunds > mlast.arg
  /\ \E spec \in LoopSpecInputs :
       /\ Len(PassesOf(1, spec)) >= 3
       /\ \E i \in DOMAIN PassesOf(1, spec) : PassesOf(1, spec)[i].vestThisTime = 0
  /\ \E spec \in LoopSpecInputs :
       spec.VestPeriod = 0 /\ Len(PassesOf(3, spec)) = 1

====
